---- MODULE Spec2Model ----
(***************************************************************************)
(* Verification model of the contract-agent RAG pipeline                   *)
(* (backend/app/services): retrieval, diversity filter, reranking, context *)
(* assembly, answer generation and verification, chunking, embedding and   *)
(* indexing.                                                               *)
(*                                                                         *)
(* Scores are fixed-point numbers: 1.0 is ONE units.  Python None is NONE. *)
(* A Python dict is a record; a key that may be absent is read with Get.   *)
(***************************************************************************)
EXTENDS Integers, Sequences, FiniteSets, TLC

VARIABLES
    pc,               \* position of the modelled call: "idle" or "done"
    call,             \* the operation that ran and its arguments
    index,            \* vectors held by the Pinecone index
    raw_results,      \* matches returned by pinecone.query_vectors
    results,          \* matches after _apply_keyword_boosting
    relevant_chunks,  \* list returned by retrieve_context_enhanced
    arg_chunks,       \* list handed to a ranking, answering or embedding step
    document,         \* text handed to chunk_document or detect_intent
    chunker,          \* configuration of the EnhancedChunkingService
    contracts,        \* rows of the contracts table, in creation order
    ret               \* value returned (or exception raised) by the call

vars == <<pc, call, index, raw_results, results, relevant_chunks, arg_chunks,
          document, chunker, contracts, ret>>

NONE == "<None>"

\* dict.get(key, default)
Get(d, key, default) == IF key \in DOMAIN d THEN d[key] ELSE default

Min(a, b) == IF a <= b THEN a ELSE b
Max(a, b) == IF a >= b THEN a ELSE b

\* list[:n]
Take(s, n) == SubSeq(s, 1, Min(n, Len(s)))

Range(s) == {s[i] : i \in 1..Len(s)}

RECURSIVE SeqSum(_)
SeqSum(s) == IF s = <<>> THEN 0 ELSE s[1] + SeqSum(Tail(s))

\* sorted(s, key=lambda x: x[f], reverse=True): stable, descending
InsertDesc(sorted, x, f) ==
    LET k == Cardinality({i \in 1..Len(sorted) : sorted[i][f] >= x[f]})
    IN  SubSeq(sorted, 1, k) \o <<x>> \o SubSeq(sorted, k + 1, Len(sorted))

RECURSIVE SortDesc(_, _)
SortDesc(s, f) ==
    IF s = <<>> THEN <<>>
    ELSE InsertDesc(SortDesc(SubSeq(s, 1, Len(s) - 1), f), s[Len(s)], f)

(***************************************************************************)
(* Strings.  The model works on a fixed vocabulary of queries, chunk texts *)
(* and section titles; str.lower(), re.findall(r'\b\w+\b', s) and the      *)
(* substring test `needle in s` are tabulated for that vocabulary.         *)
(***************************************************************************)
Lower(s) ==
    CASE s = "Payment terms: net 30 days"           -> "payment terms: net 30 days"
      [] s = "Either party may terminate on notice" -> "either party may terminate on notice"
      [] s = "Termination requires a notice period" -> "termination requires a notice period"
      [] s = "SECTION 1: PAYMENT"                   -> "section 1: payment"
      [] s = "SECTION 2: TERMINATION"               -> "section 2: termination"
      [] s = "Termination"                          -> "termination"
      [] OTHER                                      -> s

\* re.findall(r'\b\w+\b', s) as a set, for lower-cased s
WordsOf(s) ==
    CASE s = "payment terms"          -> {"payment", "terms"}
      [] s = "termination"            -> {"termination"}
      [] s = "notice period"          -> {"notice", "period"}
      [] s = "section 1: payment"     -> {"section", "1", "payment"}
      [] s = "section 2: termination" -> {"section", "2", "termination"}
      [] s = "payment terms: net 30 days" -> {"payment", "terms", "net", "30", "days"}
      [] s = "either party may terminate on notice"
             -> {"either", "party", "may", "terminate", "on", "notice"}
      [] s = "termination requires a notice period"
             -> {"termination", "requires", "a", "notice", "period"}
      [] OTHER                        -> {}

\* the query terms, intent keywords and legal phrases that occur in s
Needles(s) ==
    CASE s = "payment terms"          -> {"payment", "terms", "payment terms"}
      [] s = "termination"            -> {"termination"}
      [] s = "notice period"          -> {"notice", "period"}
      [] s = "section 1: payment"     -> {"payment"}
      [] s = "section 2: termination" -> {"termination"}
      [] s = "payment terms: net 30 days" -> {"payment", "terms", "payment terms"}
      [] s = "either party may terminate on notice" -> {"terminate", "notice"}
      [] s = "termination requires a notice period"
             -> {"termination", "notice", "period"}
      [] OTHER                        -> {}

\* needle in s
Contains(s, needle) == needle \in Needles(s)

(***************************************************************************)
(* Scores                                                                  *)
(***************************************************************************)
ONE == 1200                \* 1.0
KEYWORD_WEIGHT == 36       \* 0.03 per matching query term
INTENT_BOOST == 60         \* 0.05
SECTION_BOOST == 48        \* 0.04
ADAPTIVE_THRESHOLD == 120  \* 0.1
TERM_WEIGHT == 240         \* 0.2
PHRASE_WEIGHT == 120       \* 0.1
SECTION_WEIGHT == 180      \* 0.15
POSITION_SCORE == 60       \* 0.05
POSITION_LIMIT == 10       \* first 10 chunks

LEGAL_INTENT_KEYWORDS ==
    << [intent |-> "payment",
        keywords |-> {"payment", "compensation", "fee", "invoice", "billing",
                      "price", "cost", "amount"}],
       [intent |-> "termination",
        keywords |-> {"termination", "terminate", "cancel", "expire", "end",
                      "termination clause"}],
       [intent |-> "liability",
        keywords |-> {"liability", "liable", "damage", "loss", "responsible"}],
       [intent |-> "indemnification",
        keywords |-> {"indemnif", "indemnity", "hold harmless", "defend"}],
       [intent |-> "scope",
        keywords |-> {"scope", "work", "services", "deliverables", "obligations"}],
       [intent |-> "confidentiality",
        keywords |-> {"confidential", "non-disclosure", "nda", "proprietary", "secret"}],
       [intent |-> "warranty",
        keywords |-> {"warranty", "warrant", "guarantee", "representation"}],
       [intent |-> "insurance",
        keywords |-> {"insurance", "coverage", "policy", "insured"}],
       [intent |-> "dispute",
        keywords |-> {"dispute", "arbitration", "mediation", "jurisdiction",
                      "governing law"}] >>

LEGAL_PHRASES ==
    {"payment terms", "termination clause", "scope of work",
     "liability", "indemnification", "confidentiality"}

(***************************************************************************)
(* The vector store.  Catalogue lists the vectors index_file_to_pinecone   *)
(* may have upserted: metadata carries section_title, detected_clauses and *)
(* page only when the chunk had them.                                      *)
(***************************************************************************)
Catalogue ==
    << [id |-> "f1_chunk_0",
        metadata |-> [file_id |-> "f1", filename |-> "a.pdf", chunk_index |-> 0,
                      text |-> "Payment terms: net 30 days", page |-> 1,
                      section_title |-> "SECTION 1: PAYMENT",
                      detected_clauses |-> {"payment"}]],
       [id |-> "f1_chunk_1",
        metadata |-> [file_id |-> "f1", filename |-> "a.pdf", chunk_index |-> 1,
                      text |-> "Termination requires a notice period", page |-> 1,
                      section_title |-> "SECTION 2: TERMINATION",
                      detected_clauses |-> {"termination"}]],
       [id |-> "f1_chunk_12",
        metadata |-> [file_id |-> "f1", filename |-> "a.pdf", chunk_index |-> 12,
                      text |-> "Payment terms: net 30 days", page |-> 2,
                      section_title |-> "SECTION 1: PAYMENT",
                      detected_clauses |-> {"payment"}]],
       [id |-> "f2_chunk_0",
        metadata |-> [file_id |-> "f2", filename |-> "b.docx", chunk_index |-> 0,
                      text |-> "Either party may terminate on notice",
                      detected_clauses |-> {"termination"}]],
       [id |-> "f2_chunk_1",
        metadata |-> [file_id |-> "f2", filename |-> "b.docx", chunk_index |-> 1,
                      text |-> "Termination requires a notice period",
                      section_title |-> "SECTION 2: TERMINATION",
                      detected_clauses |-> {"termination"}]] >>

VectorIds == {Catalogue[i].id : i \in 1..Len(Catalogue)}

MaxVectors == 2     \* vectors held by the index

Queries == {"payment terms", "Termination"}
FileIdScopes == {<<>>, <<"f1">>, <<"f1", "f2">>}
BaseScores == {60, 150, 1180}    \* 0.05, 0.125, 0.983
MinScores == {180, 1300}          \* 0.15 and a threshold nothing reaches
MaxTopK == 2

\* Pinecone metadata filter: None, {"file_id": x} or {"file_id": {"$in": [...]}}
NoFilter == [op |-> "none"]

MatchesFilter(md, filter_dict) ==
    CASE filter_dict.op = "none" -> TRUE
      [] filter_dict.op = "eq"   -> md.file_id = filter_dict.value
      [] filter_dict.op = "in"   -> md.file_id \in Range(filter_dict.values)

RECURSIVE SelectSeq2(_, _, _)
SelectSeq2(s, ids, filter_dict) ==
    IF s = <<>> THEN <<>>
    ELSE LET rest == SelectSeq2(Tail(s), ids, filter_dict)
         IN  IF s[1].id \in ids /\ MatchesFilter(s[1].metadata, filter_dict)
             THEN <<s[1]>> \o rest ELSE rest

\* PineconeClient.query_vectors: the top_k most similar vectors passing the
\* filter, best first; sim gives each vector's similarity to the query
\* vector; an error of the index is logged and yields [].
query_vectors(ids, sim, top_k, filter_dict, pinecone_ok) ==
    IF ~pinecone_ok THEN <<>>
    ELSE LET cand == SelectSeq2(Catalogue, ids, filter_dict)
             scored == [i \in 1..Len(cand) |->
                          [id |-> cand[i].id, score |-> sim[cand[i].id],
                           metadata |-> cand[i].metadata]]
         IN  Take(SortDesc(scored, "score"), top_k)

(***************************************************************************)
(* EnhancedRAGService._apply_keyword_boosting                              *)
(***************************************************************************)
\* the first intent of LEGAL_INTENT_KEYWORDS one of whose keywords occurs
DetectedIntent(query_lower) ==
    LET hits == {i \in 1..Len(LEGAL_INTENT_KEYWORDS) :
                    \E kw \in LEGAL_INTENT_KEYWORDS[i].keywords :
                        Contains(query_lower, kw)}
    IN  IF hits = {} THEN NONE
        ELSE LEGAL_INTENT_KEYWORDS[CHOOSE i \in hits : \A j \in hits : i <= j].intent

KeywordBoost(query_terms, text_lower) ==
    Cardinality({t \in query_terms : Contains(text_lower, t)}) * KEYWORD_WEIGHT

IntentBoost(detected_intent, md) ==
    IF detected_intent # NONE /\ detected_intent \in Get(md, "detected_clauses", {})
    THEN INTENT_BOOST ELSE 0

SectionBoost(query_terms, md) ==
    LET section_title == Lower(Get(md, "section_title", ""))
    IN  IF section_title # "" /\ \E t \in query_terms : Contains(section_title, t)
        THEN SECTION_BOOST ELSE 0

BoostedScore_uncapped(base_score, keyword_boost, intent_boost, section_boost) ==
    base_score + keyword_boost + intent_boost + section_boost

\* result["score"] = min(1.0, base_score + keyword_boost + intent_boost + section_boost)
BoostedScore(base_score, keyword_boost, intent_boost, section_boost) ==
    Min(ONE, base_score + keyword_boost + intent_boost + section_boost)

BoostResult(query, result) ==
    LET query_lower == Lower(query)
        query_terms == WordsOf(query_lower)
        kb == KeywordBoost(query_terms, Lower(result.metadata.text))
        ib == IntentBoost(DetectedIntent(query_lower), result.metadata)
        sb == SectionBoost(query_terms, result.metadata)
    IN  [id |-> result.id, metadata |-> result.metadata,
         score |-> BoostedScore(result.score, kb, ib, sb),
         boosts |-> [keyword |-> kb, intent |-> ib, section |-> sb]]

apply_keyword_boosting(query, res) ==
    SortDesc([i \in 1..Len(res) |-> BoostResult(query, res[i])], "score")

(***************************************************************************)
(* EnhancedRAGService._enforce_diversity                                   *)
(***************************************************************************)
MaxPerFile_uncapped(max_chunks) == max_chunks

MaxPerFile(max_chunks) == Max(1, max_chunks \div 2)

SectionKey(chunk) == <<chunk.file_id, chunk.section_title>>

RECURSIVE DiversityLoop(_, _, _, _, _)
DiversityLoop(chunks, selected, seen_sections, seen_files, max_chunks) ==
    IF chunks = <<>> THEN selected
    ELSE
      LET chunk == chunks[1]
          file_id == chunk.file_id
          section_key == SectionKey(chunk)
      IN  IF section_key \in seen_sections /\ Len(selected) >= max_chunks
          THEN DiversityLoop(Tail(chunks), selected, seen_sections, seen_files,
                             max_chunks)
          ELSE IF file_id # NONE /\ Get(seen_files, file_id, 0) >= MaxPerFile(max_chunks)
          THEN DiversityLoop(Tail(chunks), selected, seen_sections, seen_files,
                             max_chunks)
          ELSE
            LET selected2 == Append(selected, chunk)
                files2 == IF file_id # NONE
                          THEN (file_id :> (Get(seen_files, file_id, 0) + 1)) @@ seen_files
                          ELSE seen_files
            IN  IF Len(selected2) >= max_chunks THEN selected2
                ELSE DiversityLoop(Tail(chunks), selected2,
                                   seen_sections \cup {section_key}, files2,
                                   max_chunks)

enforce_diversity(chunks, max_chunks) ==
    DiversityLoop(chunks, <<>>, {}, <<>>, max_chunks)

(***************************************************************************)
(* EnhancedRAGService._advanced_rerank                                     *)
(***************************************************************************)
TermScore(query_terms, text_lower) ==
    (Cardinality({t \in query_terms : Contains(text_lower, t)}) * TERM_WEIGHT)
        \div Max(Cardinality(query_terms), 1)

PhraseScore(query_lower, text_lower) ==
    Cardinality({p \in LEGAL_PHRASES :
                    Contains(query_lower, p) /\ Contains(text_lower, p)})
        * PHRASE_WEIGHT

SectionScore(query_terms, section_title) ==
    IF section_title = "" THEN 0
    ELSE (Cardinality(query_terms \cap WordsOf(section_title)) * SECTION_WEIGHT)
            \div Max(Cardinality(query_terms), 1)

PositionScore(chunk_index) ==
    IF chunk_index < POSITION_LIMIT THEN POSITION_SCORE ELSE 0

\* chunk["reranked_score"] = min(1.0, base + term + phrase + section + position)
RerankedScore(base_score, term_score, phrase_score, section_score, position_score) ==
    Min(ONE, base_score + term_score + phrase_score + section_score + position_score)

\* chunk.get("section_title", "").lower() raises AttributeError when the key is
\* present with value None
RerankRaises(chunk) == chunk.section_title = NONE

RerankChunk(query, chunk) ==
    LET query_lower == Lower(query)
        query_terms == WordsOf(query_lower)
        text_lower == Lower(chunk.text)
    IN  ("reranked_score" :>
            RerankedScore(chunk.score,
                          TermScore(query_terms, text_lower),
                          PhraseScore(query_lower, text_lower),
                          SectionScore(query_terms, Lower(chunk.section_title)),
                          PositionScore(chunk.chunk_index))) @@ chunk

\* The loop writes reranked_score into the caller's dicts one by one; an
\* exception leaves the chunks before the failing one already written.
advanced_rerank(query, chunks) ==
    LET bad == {i \in 1..Len(chunks) : RerankRaises(chunks[i])}
        stop == IF bad = {} THEN Len(chunks) + 1
                ELSE CHOOSE i \in bad : \A j \in bad : i <= j
        written == [i \in 1..Len(chunks) |->
                      IF i < stop THEN RerankChunk(query, chunks[i]) ELSE chunks[i]]
    IN  [raised |-> bad # {},
         chunks |-> written,
         value  |-> IF bad = {} THEN SortDesc(written, "reranked_score") ELSE <<>>]

(***************************************************************************)
(* EnhancedRAGService.retrieve_context_enhanced                            *)
(***************************************************************************)
EMBEDDING_DIM == 2      \* stands for the index dimension 1536

\* an Optional[List[float]]
NoVector == [some |-> FALSE]
Vec(v) == [some |-> TRUE, v |-> v]

Zeros(n) == [i \in 1..n |-> 0]

\* truncate a longer vector, zero-pad a shorter one
NormalizeDim(embedding) ==
    IF Len(embedding) # EMBEDDING_DIM
    THEN IF Len(embedding) > EMBEDDING_DIM
         THEN SubSeq(embedding, 1, EMBEDDING_DIM)
         ELSE embedding \o Zeros(EMBEDDING_DIM - Len(embedding))
    ELSE embedding

BuildFilter(file_ids) ==
    IF file_ids = <<>> THEN NoFilter
    ELSE IF Len(file_ids) = 1 THEN [op |-> "eq", value |-> file_ids[1]]
    ELSE [op |-> "in", values |-> file_ids]

InitialK(top_k, do_diversity) == IF do_diversity THEN top_k * 3 ELSE top_k * 2

\* the chunk dict built from a match; page 0 stands for None (the indexer
\* stores no falsy page)
MakeChunk(result) ==
    [text |-> Get(result.metadata, "text", ""),
     score |-> result.score,
     file_id |-> Get(result.metadata, "file_id", NONE),
     filename |-> Get(result.metadata, "filename", NONE),
     page |-> Get(result.metadata, "page", 0),
     chunk_index |-> Get(result.metadata, "chunk_index", NONE),
     section_title |-> Get(result.metadata, "section_title", NONE),
     detected_clauses |-> Get(result.metadata, "detected_clauses", {})]

RECURSIVE ChunksAtLeast(_, _)
ChunksAtLeast(res, threshold) ==
    IF res = <<>> THEN <<>>
    ELSE IF res[1].score >= threshold
         THEN <<MakeChunk(res[1])>> \o ChunksAtLeast(Tail(res), threshold)
         ELSE ChunksAtLeast(Tail(res), threshold)

TopRegardless_forgotten(res, top_k) == <<>>

\* the chunks taken whatever their score, when none reaches 0.1
TopRegardless(res, top_k) ==
    LET top == Take(res, top_k)
    IN  [i \in 1..Len(top) |-> MakeChunk(top[i])]

\* Step 5: minimum-score filter with the adaptive fallback
FilterByScore(res, top_k, min_score) ==
    LET normal == ChunksAtLeast(res, min_score)
    IN  IF normal = <<>> /\ res # <<>>
        THEN LET lenient == Take(ChunksAtLeast(res, ADAPTIVE_THRESHOLD), top_k)
             IN  IF lenient = <<>> THEN TopRegardless(res, top_k) ELSE lenient
        ELSE normal

\* Step 7 without the except branch: a failing rerank loses the chunks
RerankStep_failing(query, chunks, top_k) ==
    IF chunks = <<>> THEN <<>>
    ELSE LET rr == advanced_rerank(query, chunks)
         IN  IF rr.raised THEN <<>>
             ELSE IF rr.value # <<>> THEN Take(rr.value, top_k)
             ELSE Take(chunks, top_k)

\* Step 7 without the [:top_k] slice of the reranked list
RerankStep_unsliced(query, chunks, top_k) ==
    IF chunks = <<>> THEN <<>>
    ELSE LET rr == advanced_rerank(query, chunks)
         IN  IF rr.raised THEN Take(rr.chunks, top_k)
             ELSE IF rr.value # <<>> THEN rr.value
             ELSE Take(chunks, top_k)

\* Step 7: rerank, keeping the chunks when reranking raises or returns nothing
RerankStep(query, chunks, top_k) ==
    IF chunks = <<>> THEN <<>>
    ELSE LET rr == advanced_rerank(query, chunks)
         IN  IF rr.raised THEN Take(rr.chunks, top_k)
             ELSE IF rr.value # <<>> THEN Take(rr.value, top_k)
             ELSE Take(chunks, top_k)

\* env: what the collaborators answer during the call
\*   embedding   the Optional vector from embedder.generate_embedding
\*   sim         the similarity of each stored vector to the query vector
\*   pinecone_ok FALSE when the index query fails (logged, yields [])
retrieve_context_enhanced(ids, query, file_ids, top_k, min_score, use_hybrid, do_diversity, env) ==
    LET nothing == [query_vector |-> NoVector, raw |-> <<>>, boosted |-> <<>>,
                    chunks |-> <<>>, retried |-> FALSE]
    IN
    IF ~env.embedding.some \/ env.embedding.v = <<>> THEN nothing
    ELSE
      LET query_embedding == NormalizeDim(env.embedding.v)
          filter_dict == BuildFilter(file_ids)
          initial_k == InitialK(top_k, do_diversity)
          first == query_vectors(ids, env.sim, initial_k, filter_dict,
                                 env.pinecone_ok)
          retried == first = <<>> /\ filter_dict.op # "none"
          raw == IF retried
                 THEN query_vectors(ids, env.sim, initial_k, NoFilter,
                                    env.pinecone_ok)
                 ELSE first
      IN
      IF raw = <<>>
      THEN [nothing EXCEPT !.query_vector = Vec(query_embedding),
                           !.retried = retried]
      ELSE
        LET boosted == IF use_hybrid THEN apply_keyword_boosting(query, raw)
                       ELSE raw
            filtered == FilterByScore(boosted, top_k, min_score)
            diverse == IF do_diversity /\ filtered # <<>>
                       THEN enforce_diversity(filtered, top_k) ELSE filtered
        IN  [query_vector |-> Vec(query_embedding), raw |-> raw,
             boosted |-> boosted, retried |-> retried,
             chunks |-> RerankStep(query, diverse, top_k)]

(***************************************************************************)
(* OpenRouterClient.chat_completion.  resps lists what the provider        *)
(* answers to the successive POSTs of one call: "ok", "429", "5xx", "4xx", *)
(* "timeout" or "error" (any other exception).                             *)
(***************************************************************************)
PRIMARY_MODEL == "anthropic/claude-3.5-sonnet"
FALLBACK_MODEL == "anthropic/claude-3-haiku"
MAX_RETRIES == 2

ModelsToTry == <<PRIMARY_MODEL, FALLBACK_MODEL>>

\* the `for attempt in range(max_retries)` loop on one model, reading the
\* provider answers from position pos on
RECURSIVE TryModel(_, _, _)
TryModel(resps, pos, attempt) ==
    IF attempt >= MAX_RETRIES THEN [ok |-> FALSE, pos |-> pos]
    ELSE CASE resps[pos] = "ok" -> [ok |-> TRUE, pos |-> pos + 1]
           [] resps[pos] \in {"429", "5xx", "timeout"}
                -> TryModel(resps, pos + 1, attempt + 1)
           [] OTHER -> [ok |-> FALSE, pos |-> pos + 1]

RECURSIVE TryModels(_, _, _)
TryModels(resps, pos, m) ==
    IF m > Len(ModelsToTry)
    THEN [raised |-> TRUE, model_used |-> NONE, provider_calls |-> pos - 1]
    ELSE LET t == TryModel(resps, pos, 0)
         IN  IF t.ok
             THEN [raised |-> FALSE, model_used |-> ModelsToTry[m],
                   provider_calls |-> t.pos - 1]
             ELSE TryModels(resps, t.pos, m + 1)

chat_completion(resps) == TryModels(resps, 1, 1)

(***************************************************************************)
(* EnhancedRAGService.build_enhanced_context                               *)
(***************************************************************************)
SectionTitleOf(chunk) ==
    LET t == Get(chunk, "section_title", "General")
    IN  IF t = NONE \/ t = "" THEN "General" ELSE t

\* the keys of the `sections` dict, in insertion order
RECURSIVE SectionOrder(_, _)
SectionOrder(chunks, seen) ==
    IF chunks = <<>> THEN seen
    ELSE LET t == SectionTitleOf(chunks[1])
         IN  SectionOrder(Tail(chunks),
                          IF t \in Range(seen) THEN seen ELSE Append(seen, t))

\* sections[title]: the (i, chunk) pairs of one section, in input order
RECURSIVE SectionItems(_, _, _)
SectionItems(chunks, title, i) ==
    IF i > Len(chunks) THEN <<>>
    ELSE IF SectionTitleOf(chunks[i]) = title
         THEN <<[chunk_idx |-> i, chunk |-> chunks[i]]>>
                  \o SectionItems(chunks, title, i + 1)
         ELSE SectionItems(chunks, title, i + 1)

RenderItems_same_number(items, title, source_num) ==
    [k \in 1..Len(items) |->
        [kind |-> "chunk", source_num |-> source_num,
         chunk_idx |-> items[k].chunk_idx,
         filename |-> Get(items[k].chunk, "filename", "Document"),
         page |-> items[k].chunk.page,
         section_title |-> title,
         chunk_index |-> items[k].chunk.chunk_index,
         text |-> items[k].chunk.text]]

\* the citations of one section, numbered from source_num on
RenderItems(items, title, source_num) ==
    [k \in 1..Len(items) |->
        [kind |-> "chunk", source_num |-> source_num + k - 1,
         chunk_idx |-> items[k].chunk_idx,
         filename |-> Get(items[k].chunk, "filename", "Document"),
         page |-> items[k].chunk.page,
         section_title |-> title,
         chunk_index |-> items[k].chunk.chunk_index,
         text |-> items[k].chunk.text]]

RECURSIVE RenderSections(_, _, _)
RenderSections(chunks, titles, source_num) ==
    IF titles = <<>> THEN <<>>
    ELSE LET items == SectionItems(chunks, titles[1], 1)
             header == IF titles[1] # "General"
                       THEN <<[kind |-> "header", title |-> titles[1]]>>
                       ELSE <<>>
         IN  header \o RenderItems(items, titles[1], source_num)
                 \o RenderSections(chunks, Tail(titles), source_num + Len(items))

\* context_parts in rendering order and the source_map built next to it;
\* the vocabulary holds no exhibit reference, so missing_exhibits is empty
build_enhanced_context(chunks) ==
    IF chunks = <<>>
    THEN [context_parts |-> <<>>, total_chunks |-> 0, sections |-> <<>>,
          source_map |-> <<>>, missing_exhibits |-> <<>>]
    ELSE
      LET titles == SectionOrder(chunks, <<>>)
          parts == RenderSections(chunks, titles, 1)
          cited == SelectSeq(parts, LAMBDA p : p.kind = "chunk")
          nums == {cited[k].source_num : k \in 1..Len(cited)}
      IN  [context_parts |-> parts,
           total_chunks |-> Len(chunks),
           sections |-> titles,
           source_map |->
              [n \in nums |->
                 LET c == cited[CHOOSE k \in 1..Len(cited) :
                                   cited[k].source_num = n
                                   /\ \A j \in 1..Len(cited) :
                                        cited[j].source_num = n => j <= k]
                 IN  [filename |-> c.filename, page |-> c.page,
                      section_title |-> c.section_title,
                      chunk_index |-> c.chunk_index]],
           missing_exhibits |-> <<>>]

(***************************************************************************)
(* EnhancedRAGService._verify_answer                                       *)
(* The verifier's output is a sequence of tokens: "{", "}", "x" (prose),   *)
(* and the JSON members "r" ("revised_answer": "<text>"), "n"              *)
(* ("revised_answer": null), "e" ("revised_answer": "") and "s"            *)
(* ("verification_status": "all_grounded").                                *)
(***************************************************************************)
REVISED_ANSWER == "revised answer"

Members == {"r", "n", "e", "s"}

\* str.find / str.rfind, 0-based, of a token known to occur
Find(text, tok) == (CHOOSE i \in 1..Len(text) :
                      text[i] = tok /\ \A j \in 1..(i - 1) : text[j] # tok) - 1
RFind(text, tok) == (CHOOSE i \in 1..Len(text) :
                      text[i] = tok /\ \A j \in (i + 1)..Len(text) : text[j] # tok) - 1

\* text[a:b]
Slice(text, a, b) == SubSeq(text, a + 1, b)

\* json.loads: an object with no member or one member parses, the rest raises
JsonValid(json_str) ==
    \/ json_str = <<"{", "}">>
    \/ /\ Len(json_str) = 3
       /\ json_str[1] = "{" /\ json_str[3] = "}" /\ json_str[2] \in Members

JsonLoads(json_str) ==
    IF Len(json_str) = 2 THEN [claims |-> "none"]
    ELSE CASE json_str[2] = "r" -> [revised_answer |-> REVISED_ANSWER]
           [] json_str[2] = "n" -> [revised_answer |-> NONE]
           [] json_str[2] = "e" -> [revised_answer |-> ""]
           [] OTHER             -> [verification_status |-> "all_grounded"]

VerificationFailed(draft_answer, provider_calls) ==
    [answer |-> draft_answer,
     verification |-> [status |-> "verification_failed"],
     provider_calls |-> provider_calls]

\* json.loads(json_str) and the answer built from it
ParsedVerification(draft_answer, json_str, provider_calls) ==
    IF ~JsonValid(json_str) THEN VerificationFailed(draft_answer, provider_calls)
    ELSE [answer |-> Get(JsonLoads(json_str), "revised_answer", draft_answer),
          verification |-> JsonLoads(json_str),
          provider_calls |-> provider_calls]

\* the part of _verify_answer after the model call cc
VerifyWith(draft_answer, verification_text, cc) ==
    IF cc.raised THEN VerificationFailed(draft_answer, cc.provider_calls)
    ELSE IF "{" \in Range(verification_text) /\ "}" \in Range(verification_text)
    THEN ParsedVerification(draft_answer,
                            Slice(verification_text,
                                  Find(verification_text, "{"),
                                  RFind(verification_text, "}") + 1),
                            cc.provider_calls)
    ELSE [answer |-> draft_answer,
          verification |-> [status |-> "manual_review_needed"],
          provider_calls |-> cc.provider_calls]

\* env.verify_resps: the provider's answers to the verification call
\* env.verification_text: the content of its successful answer
verify_answer(draft_answer, env) ==
    VerifyWith(draft_answer, env.verification_text,
               chat_completion(env.verify_resps))

(***************************************************************************)
(* EnhancedRAGService._extract_sources and generate_grounded_answer        *)
(***************************************************************************)
FinalScore(chunk) == Get(chunk, "reranked_score", chunk.score)

SourceKey(chunk) == <<chunk.file_id, chunk.page, chunk.chunk_index>>

RECURSIVE ExtractLoop(_, _)
ExtractLoop(chunks, seen) ==
    IF chunks = <<>> THEN <<>>
    ELSE IF SourceKey(chunks[1]) \in seen THEN ExtractLoop(Tail(chunks), seen)
    ELSE <<[text |-> chunks[1].text, score |-> FinalScore(chunks[1]),
            file_id |-> chunks[1].file_id, filename |-> chunks[1].filename,
            page |-> chunks[1].page, chunk_index |-> chunks[1].chunk_index,
            section_title |-> chunks[1].section_title]>>
           \o ExtractLoop(Tail(chunks), seen \cup {SourceKey(chunks[1])})

extract_sources(chunks) == ExtractLoop(chunks, {})

HIGH_CONFIDENCE == 900      \* 0.75
MEDIUM_CONFIDENCE == 660    \* 0.55

\* avg_score >= threshold, for avg_score = sum / len (0 for no chunk)
AvgAtLeast(chunks, threshold) ==
    IF chunks = <<>> THEN 0 >= threshold
    ELSE SeqSum([i \in 1..Len(chunks) |-> FinalScore(chunks[i])])
            >= threshold * Len(chunks)

Confidence(chunks) ==
    IF AvgAtLeast(chunks, HIGH_CONFIDENCE) THEN "high"
    ELSE IF AvgAtLeast(chunks, MEDIUM_CONFIDENCE) THEN "medium" ELSE "low"

DRAFT_ANSWER == "draft answer [Source 1]"
ERROR_ANSWER == "I encountered an error while processing your request. Please try again."

\* the result built after a successful generation call
AnswerResult(context_chunks, ctx, gen, verified_answer) ==
    [answer |-> verified_answer.answer,
     sources |-> extract_sources(context_chunks),
     confidence |-> Confidence(context_chunks),
     raised |-> FALSE,
     model_used |-> gen.model_used,
     retrieved_chunks |-> Len(context_chunks),
     verification |-> verified_answer.verification,
     source_map |-> ctx.source_map,
     missing_exhibits |-> ctx.missing_exhibits,
     generation_calls |-> gen.provider_calls,
     verification_calls |-> verified_answer.provider_calls]

\* the result built by the except branch
ErrorResult(ctx, gen) ==
    [answer |-> ERROR_ANSWER, sources |-> <<>>, confidence |-> "error",
     raised |-> FALSE, source_map |-> ctx.source_map,
     generation_calls |-> gen.provider_calls, verification_calls |-> 0]

GenerateWith_propagates(context_chunks, env, ctx, gen) ==
    IF gen.raised THEN [ErrorResult(ctx, gen) EXCEPT !.raised = TRUE]
    ELSE AnswerResult(context_chunks, ctx, gen, verify_answer(DRAFT_ANSWER, env))

\* the try block, given the context ctx and the generation call gen
GenerateWith(context_chunks, env, ctx, gen) ==
    IF gen.raised THEN ErrorResult(ctx, gen)
    ELSE AnswerResult(context_chunks, ctx, gen, verify_answer(DRAFT_ANSWER, env))

\* env.gen_resps: the provider's answers to the generation call
generate_grounded_answer(context_chunks, env) ==
    GenerateWith(context_chunks, env, build_enhanced_context(context_chunks),
                 chat_completion(env.gen_resps))

(***************************************************************************)
(* EnhancedRAGService.chat                                                 *)
(***************************************************************************)
NO_CONTEXT_ANSWER == "I don't have any relevant information in the uploaded documents to answer your question. Please ensure you've uploaded relevant documents, or try rephrasing your question."
NOT_PRESENT_SENTENCE == "This information is not present in the provided documents."
CHAT_MIN_SCORE == 180       \* 0.15

NoContextResult_error ==
    [answer |-> ERROR_ANSWER, sources |-> <<>>, confidence |-> "error",
     retrieved_chunks |-> 0, generation_calls |-> 0, verification_calls |-> 0]

\* the result returned when retrieval yields no chunk
NoContextResult ==
    [answer |-> NO_CONTEXT_ANSWER, sources |-> <<>>, confidence |-> "low",
     retrieved_chunks |-> 0, generation_calls |-> 0, verification_calls |-> 0]

\* Step 2 of chat, given the retrieval r
ChatWith(r, env) ==
    IF r.chunks = <<>>
    THEN [retrieval |-> r, result |-> NoContextResult]
    ELSE [retrieval |-> r, result |-> generate_grounded_answer(r.chunks, env)]

chat(ids, query, file_ids, top_k, env) ==
    ChatWith(retrieve_context_enhanced(ids, query, file_ids, top_k,
                                       CHAT_MIN_SCORE, TRUE, TRUE, env), env)

(***************************************************************************)
(* State machine of the retrieval and chat calls                           *)
(***************************************************************************)
QueryEmbeddings ==
    {NoVector, Vec(<<1>>), Vec(<<1, 0, 1>>)}

Stores == {S \in SUBSET VectorIds : Cardinality(S) <= MaxVectors}

NoCall == [op |-> "none"]
NoRet == [status |-> "none"]
NoChunker == [chunk_size |-> 0]

InitRag ==
    /\ pc = "idle"
    /\ call = NoCall
    /\ index \in Stores
    /\ raw_results = <<>>
    /\ results = <<>>
    /\ relevant_chunks = <<>>
    /\ arg_chunks = <<>>
    /\ document = <<>>
    /\ chunker = NoChunker
    /\ contracts = <<>>
    /\ ret = NoRet

\* the warnings the dimension normalization of the query embedding records:
\* the branch that truncates or pads holds no logger call
NormalizeWarnings(embedding) == <<>>

\* the state left by a call whose retrieval was r
Retrieval(op, query, file_ids, top_k, min_score, use_hybrid, do_diversity, r) ==
    /\ call' = [op |-> op, query |-> query, file_ids |-> file_ids,
                top_k |-> top_k, min_score |-> min_score,
                use_hybrid |-> use_hybrid, enforce_diversity |-> do_diversity,
                query_vector |-> r.query_vector, retried |-> r.retried]
    /\ raw_results' = r.raw
    /\ results' = r.boosted
    /\ relevant_chunks' = r.chunks

RetrieveContextEnhanced ==
    /\ pc = "idle"
    /\ \E query \in Queries, file_ids \in FileIdScopes, top_k \in 1..MaxTopK,
          min_score \in MinScores, use_hybrid \in BOOLEAN,
          do_diversity \in BOOLEAN, embedding \in QueryEmbeddings,
          sim \in [index -> BaseScores], pinecone_ok \in BOOLEAN :
        /\ Retrieval("retrieve", query, file_ids, top_k, min_score, use_hybrid,
                  do_diversity,
                  retrieve_context_enhanced(
                      index, query, file_ids, top_k, min_score, use_hybrid,
                      do_diversity,
                      [embedding |-> embedding, sim |-> sim,
                       pinecone_ok |-> pinecone_ok]))
        /\ ret' = [status |-> "returned", embedding |-> embedding,
                   warnings |-> NormalizeWarnings(embedding)]
    /\ pc' = "done"
    /\ UNCHANGED <<index, arg_chunks, document, chunker, contracts>>

\* provider behaviours exercised by Chat
AllOk == <<"ok", "ok", "ok", "ok">>
AllFail == <<"429", "5xx", "4xx", "error">>
ChatVerifierTexts == {<<"x">>, <<"{", "r", "}">>}

\* the state left by a chat call that computed c
Chatted(query, file_ids, top_k, c) ==
    /\ Retrieval("chat", query, file_ids, top_k, CHAT_MIN_SCORE, TRUE, TRUE,
                 c.retrieval)
    /\ ret' = [status |-> "returned", result |-> c.result]

Chat ==
    /\ pc = "idle"
    /\ \E query \in Queries, file_ids \in FileIdScopes, top_k \in 1..MaxTopK,
          embedding \in QueryEmbeddings, sim \in [index -> BaseScores],
          pinecone_ok \in BOOLEAN, gen_resps \in {AllOk, AllFail},
          verification_text \in ChatVerifierTexts :
        Chatted(query, file_ids, top_k,
                chat(index, query, file_ids, top_k,
                     [embedding |-> embedding, sim |-> sim,
                      pinecone_ok |-> pinecone_ok, gen_resps |-> gen_resps,
                      verify_resps |-> AllOk,
                      verification_text |-> verification_text]))
    /\ pc' = "done"
    /\ UNCHANGED <<index, arg_chunks, document, chunker, contracts>>

NextRag == RetrieveContextEnhanced \/ Chat

SpecRag == InitRag /\ [][NextRag]_vars

(***************************************************************************)
(* Properties of retrieval and chat                                        *)
(***************************************************************************)
Retrieved == pc = "done" /\ call.op \in {"retrieve", "chat"}

\* C1: when the query embedding succeeds and the vector store returns at
\* least one candidate (for the filtered query or for the unfiltered retry),
\* retrieve_context_enhanced returns a non-empty chunk list, whatever the
\* scores and min_score.
C1_NeverEmptiesCandidates ==
    (Retrieved /\ call.query_vector.some /\ raw_results # <<>>)
        => relevant_chunks # <<>>

\* every candidate scores below 0.1 and below min_score, and chunks come back
C1_Witness ==
    /\ Retrieved /\ call.op = "retrieve"
    /\ results # <<>>
    /\ \A i \in 1..Len(results) : results[i].score < ADAPTIVE_THRESHOLD
    /\ call.enforce_diversity
    /\ Len(relevant_chunks) >= 1

BaseScoreOf(id) ==
    LET i == CHOOSE k \in 1..Len(raw_results) : raw_results[k].id = id
    IN  raw_results[i].score

\* C6: the score written by _apply_keyword_boosting lies between the base
\* similarity and 1.0, and every reranked_score written by _advanced_rerank
\* lies between the chunk's score and 1.0.
C6_BoostsWithinBounds ==
    (Retrieved /\ call.use_hybrid) =>
        /\ \A i \in 1..Len(results) :
              /\ BaseScoreOf(results[i].id) <= results[i].score
              /\ results[i].score <= ONE
        /\ \A i \in 1..Len(relevant_chunks) :
              "reranked_score" \in DOMAIN relevant_chunks[i] =>
                  /\ relevant_chunks[i].score <= relevant_chunks[i].reranked_score
                  /\ relevant_chunks[i].reranked_score <= ONE

\* a boost was capped at 1.0 and a rerank raised a score
C6_Witness ==
    /\ Retrieved /\ call.use_hybrid
    /\ \E i \in 1..Len(results) :
          results[i].score = ONE /\ BaseScoreOf(results[i].id) < ONE
    /\ \E i \in 1..Len(relevant_chunks) :
          /\ "reranked_score" \in DOMAIN relevant_chunks[i]
          /\ relevant_chunks[i].reranked_score > relevant_chunks[i].score

ChatFoundNothing == pc = "done" /\ call.op = "chat" /\ relevant_chunks = <<>>

MaxChunks == 4          \* length of the ranked list, and largest max_chunks

\* the score of the chunk ranked i-th
RankScore(i) == ONE - 150 * i

\* injective sequences of catalogue positions of length n
RECURSIVE Rankings(_)
Rankings(n) ==
    IF n = 0 THEN {<<>>}
    ELSE {Append(r, k) : r \in Rankings(n - 1), k \in 1..Len(Catalogue)}
            \cap {r \in [1..n -> 1..Len(Catalogue)] :
                     \A i, j \in 1..n : i # j => r[i] # r[j]}

RankedList(r) ==
    [i \in 1..Len(r) |->
        MakeChunk([id |-> Catalogue[r[i]].id, score |-> RankScore(i),
                   metadata |-> Catalogue[r[i]].metadata])]

RankedLists ==
    {RankedList(r) : r \in UNION {Rankings(n) : n \in 1..Min(MaxChunks, Len(Catalogue))}}

InitRank ==
    /\ pc = "idle"
    /\ call = NoCall
    /\ index = {}
    /\ raw_results = <<>>
    /\ results = <<>>
    /\ relevant_chunks = <<>>
    /\ arg_chunks \in RankedLists
    /\ document = <<>>
    /\ chunker = NoChunker
    /\ contracts = <<>>
    /\ ret = NoRet

EnforceDiversity ==
    /\ pc = "idle"
    /\ \E max_chunks \in 1..MaxChunks :
        /\ call' = [op |-> "diversity", max_chunks |-> max_chunks]
        /\ ret' = [status |-> "returned",
                   selected |-> enforce_diversity(arg_chunks, max_chunks)]
    /\ pc' = "done"
    /\ UNCHANGED <<index, raw_results, results, relevant_chunks, arg_chunks, document, chunker, contracts>>

BuildEnhancedContext ==
    /\ pc = "idle"
    /\ call' = [op |-> "context"]
    /\ ret' = [status |-> "returned", context |-> build_enhanced_context(arg_chunks)]
    /\ pc' = "done"
    /\ UNCHANGED <<index, raw_results, results, relevant_chunks, arg_chunks, document, chunker, contracts>>

NextRank == EnforceDiversity \/ BuildEnhancedContext

SpecRank == InitRank /\ [][NextRank]_vars

FileIdsOf(list) == {list[i].file_id : i \in 1..Len(list)}

CountOfFile(list, f) == Cardinality({i \in 1..Len(list) : list[i].file_id = f})

Diversified == pc = "done" /\ call.op = "diversity"

\* C3 as stated: for a ranked list with arg_chunks of at least two file ids, the
\* output of _enforce_diversity holds at most max_chunks // 2 arg_chunks of one
\* file id.
C3_HalfPerFile ==
    (Diversified /\ Cardinality(FileIdsOf(arg_chunks)) >= 2) =>
        \A f \in FileIdsOf(arg_chunks) :
            CountOfFile(ret.selected, f) <= call.max_chunks \div 2

\* C3 amended: for a ranked list with arg_chunks of at least two file ids, the
\* output of _enforce_diversity holds at most max(1, max_chunks // 2) arg_chunks
\* of one file id.
C3_HalfPerFileAtLeastOne ==
    (Diversified /\ Cardinality(FileIdsOf(arg_chunks)) >= 2) =>
        \A f \in FileIdsOf(arg_chunks) :
            CountOfFile(ret.selected, f)
                <= Max(1, call.max_chunks \div 2)

\* a file with more arg_chunks than the cap allows was cut down to the cap
C3_Witness ==
    /\ Diversified
    /\ Cardinality(FileIdsOf(arg_chunks)) >= 2
    /\ call.max_chunks >= 4
    /\ \E f \in FileIdsOf(arg_chunks) :
          /\ CountOfFile(arg_chunks, f) > call.max_chunks \div 2
          /\ CountOfFile(ret.selected, f) = call.max_chunks \div 2

ContextBuilt == pc = "done" /\ call.op = "context"

Cited == SelectSeq(ret.context.context_parts, LAMBDA p : p.kind = "chunk")

\* C7: build_enhanced_context gives each of the n arg_chunks exactly one citation
\* number; the numbers are exactly 1..n, the keys of source_map; they
\* increase in rendering order; the arg_chunks of one section title (no title:
\* "General") get consecutive numbers.
C7_CitationNumbers ==
    ContextBuilt =>
        LET n == Len(arg_chunks)
        IN  /\ Len(Cited) = n
            /\ DOMAIN ret.context.source_map = 1..n
            /\ \A k \in 1..Len(Cited) : Cited[k].source_num = k
            /\ {Cited[k].chunk_idx : k \in 1..Len(Cited)} = 1..n
            /\ \A k \in 1..Len(Cited) :
                  /\ Cited[k].text = arg_chunks[Cited[k].chunk_idx].text
                  /\ ret.context.source_map[k].chunk_index
                        = arg_chunks[Cited[k].chunk_idx].chunk_index
            /\ \A a, b \in 1..Len(Cited) :
                  (a < b /\ SectionTitleOf(arg_chunks[Cited[a].chunk_idx])
                              = SectionTitleOf(arg_chunks[Cited[b].chunk_idx]))
                  => \A m \in a..b :
                        SectionTitleOf(arg_chunks[Cited[m].chunk_idx])
                            = SectionTitleOf(arg_chunks[Cited[a].chunk_idx])

\* grouping by section reordered the arg_chunks, one of them without a title
C7_Witness ==
    /\ ContextBuilt
    /\ Len(arg_chunks) >= 3
    /\ \E k \in 1..Len(Cited) : Cited[k].chunk_idx # k
    /\ \E i \in 1..Len(arg_chunks) : arg_chunks[i].section_title = NONE

(***************************************************************************)
(* Answer generation and verification on a given context                   *)
(***************************************************************************)
MaxContext == 2         \* chunks in the context handed to the generator
MaxVerifierLen == 3     \* tokens in the verifier's output

ProviderOutcomes == {"ok", "429", "5xx", "4xx", "timeout", "error"}

\* what the provider answers to the (at most four) POSTs of one call
ProviderAnswers == [1..(MAX_RETRIES * Len(ModelsToTry)) -> ProviderOutcomes]

VerifierTokens == {"{", "}", "x"} \cup Members

VerifierTexts ==
    UNION {[1..n -> VerifierTokens] : n \in 0..MaxVerifierLen}

ContextLists ==
    {RankedList(r) : r \in UNION {Rankings(n) : n \in 1..Min(MaxContext, Len(Catalogue))}}

InitAnswer ==
    /\ pc = "idle"
    /\ call = NoCall
    /\ index = {}
    /\ raw_results = <<>>
    /\ results = <<>>
    /\ relevant_chunks = <<>>
    /\ arg_chunks \in ContextLists
    /\ document = <<>>
    /\ chunker = NoChunker
    /\ contracts = <<>>
    /\ ret = NoRet

Returned(result) ==
    ret' = [status |-> IF result.raised THEN "raised" ELSE "returned",
            result |-> result]

\* the verifier behaves in one of three ways while the generator varies
GenerateGroundedAnswer ==
    /\ pc = "idle"
    /\ \E gen_resps \in ProviderAnswers,
          verify_resps \in {AllOk, AllFail},
          verification_text \in {<<"x">>, <<"{", "r", "}">>} :
        /\ call' = [op |-> "generate", gen_resps |-> gen_resps,
                    verify_resps |-> verify_resps,
                    verification_text |-> verification_text]
        /\ Returned(generate_grounded_answer(
                        arg_chunks,
                        [gen_resps |-> gen_resps, verify_resps |-> verify_resps,
                         verification_text |-> verification_text]))
    /\ pc' = "done"
    /\ UNCHANGED <<index, raw_results, results, relevant_chunks, arg_chunks, document, chunker, contracts>>

\* the outcome of _verify_answer does not depend on the chunks (they only
\* enter the prompt): it is exercised on the one-chunk contexts
VerifyAnswer ==
    /\ pc = "idle"
    /\ Len(arg_chunks) = 1
    /\ \E verify_resps \in {AllOk, AllFail, <<"4xx", "timeout", "ok", "ok">>},
          verification_text \in VerifierTexts :
        /\ call' = [op |-> "verify", draft_answer |-> DRAFT_ANSWER,
                    verify_resps |-> verify_resps,
                    verification_text |-> verification_text]
        /\ ret' = [status |-> "returned",
                   result |-> verify_answer(
                                  DRAFT_ANSWER,
                                  [verify_resps |-> verify_resps,
                                   verification_text |-> verification_text])]
    /\ pc' = "done"
    /\ UNCHANGED <<index, raw_results, results, relevant_chunks, arg_chunks, document, chunker, contracts>>

NextAnswer == GenerateGroundedAnswer \/ VerifyAnswer

SpecAnswer == InitAnswer /\ [][NextAnswer]_vars

\* the verifier answered, and its text holds no parsable JSON object
Unparsable(text) ==
    \/ ~("{" \in Range(text) /\ "}" \in Range(text))
    \/ /\ "{" \in Range(text) /\ "}" \in Range(text)
       /\ LET a == CHOOSE i \in 1..Len(text) :
                      text[i] = "{" /\ \A j \in 1..(i - 1) : text[j] # "{"
              b == CHOOSE i \in 1..Len(text) :
                      text[i] = "}" /\ \A j \in (i + 1)..Len(text) : text[j] # "}"
          IN  ~JsonValid(SubSeq(text, a, b))

VerifierAnswered ==
    /\ pc = "done" /\ call.op = "verify"
    /\ \E i \in 1..Len(call.verify_resps) :
          /\ call.verify_resps[i] = "ok"
          /\ ret.result.provider_calls >= i

\* C9: for every verifier output that cannot be parsed as JSON (no JSON
\* object at all, or malformed text between the first "{" and the last "}"),
\* _verify_answer returns the unmodified draft with verification status
\* manual_review_needed.
C9_UnparsableNeedsManualReview ==
    (VerifierAnswered /\ Unparsable(call.verification_text)) =>
        /\ ret.result.answer = call.draft_answer
        /\ Get(ret.result.verification, "status", NONE) = "manual_review_needed"

GenerationFailed ==
    /\ pc = "done" /\ call.op = "generate"
    /\ chat_completion(call.gen_resps).raised

\* C10: when every attempt of the generation call fails,
\* generate_grounded_answer raises nothing and returns the fixed fallback
\* answer with confidence "error" and no sources, and issues no verification
\* call.
C10_GenerationFailureIsAnswered ==
    GenerationFailed =>
        /\ ret.status = "returned"
        /\ ret.result.answer = ERROR_ANSWER
        /\ ret.result.confidence = "error"
        /\ ret.result.sources = <<>>
        /\ ret.result.verification_calls = 0

\* both models used up their two attempts, then the fallback answer came back
C10_Witness ==
    /\ GenerationFailed
    /\ ret.result.generation_calls = 4
    /\ Len(arg_chunks) >= 2
    /\ ret.result.answer = ERROR_ANSWER

(***************************************************************************)
(* Embedding client: get_embeddings_batch                                  *)
(***************************************************************************)
BATCH_SIZE == 2         \* stands for the sub-batch size 10
EMBED_ATTEMPTS == 3

\* str.strip() on the texts of the model
Strip(text) == IF text \in {"", " ", "  "} THEN "" ELSE text

\* what the provider answers to one POST /embeddings
EmbedOutcomes == {"ok", "429", "5xx", "timeout"}

\* the sub-batch loop with its attempt loop; texts[i] is embedded by the
\* provider as vector_of[i], answers[k] is the provider's k-th answer
RECURSIVE BatchLoop(_, _, _, _, _, _, _)
BatchLoop(texts, vector_of, answers, i, attempt, pos, embeddings) ==
    IF i >= Len(texts)
    THEN [raised |-> FALSE, embeddings |-> embeddings, provider_calls |-> pos]
    ELSE IF attempt = EMBED_ATTEMPTS
    THEN \* the attempt loop ran out without break and without raise
         BatchLoop(texts, vector_of, answers, i + BATCH_SIZE, 0, pos, embeddings)
    ELSE CASE answers[pos + 1] = "ok" ->
                BatchLoop(texts, vector_of, answers, i + BATCH_SIZE, 0, pos + 1,
                          embeddings \o SubSeq(vector_of, i + 1,
                                               Min(i + BATCH_SIZE, Len(texts))))
           [] answers[pos + 1] = "429" ->
                BatchLoop(texts, vector_of, answers, i, attempt + 1, pos + 1,
                          embeddings)
           [] answers[pos + 1] = "5xx" ->
                [raised |-> TRUE, embeddings |-> embeddings,
                 provider_calls |-> pos + 1]
           [] OTHER ->
                IF attempt = EMBED_ATTEMPTS - 1
                THEN [raised |-> TRUE, embeddings |-> embeddings,
                      provider_calls |-> pos + 1]
                ELSE BatchLoop(texts, vector_of, answers, i, attempt + 1,
                               pos + 1, embeddings)

get_embeddings_batch(texts, vector_of, answers) ==
    IF texts = <<>>
    THEN [raised |-> FALSE, embeddings |-> <<>>, provider_calls |-> 0]
    ELSE BatchLoop(texts, vector_of, answers, 0, 0, 0, <<>>)

\* the attempt loop of get_embedding from attempt on; answers[k] is the
\* provider's k-th answer, vector its embedding of the text
RECURSIVE EmbedAttempts(_, _, _)
EmbedAttempts(vector, answers, attempt) ==
    IF attempt = EMBED_ATTEMPTS
    THEN \* "Failed to get embedding after all retries"
         [raised |-> TRUE, embedding |-> <<>>, provider_calls |-> attempt]
    ELSE CASE answers[attempt + 1] = "ok" ->
                [raised |-> FALSE, embedding |-> vector,
                 provider_calls |-> attempt + 1]
           [] answers[attempt + 1] = "429" ->
                EmbedAttempts(vector, answers, attempt + 1)
           [] answers[attempt + 1] = "5xx" ->
                [raised |-> TRUE, embedding |-> <<>>,
                 provider_calls |-> attempt + 1]
           [] OTHER ->
                IF attempt = EMBED_ATTEMPTS - 1
                THEN [raised |-> TRUE, embedding |-> <<>>,
                      provider_calls |-> attempt + 1]
                ELSE EmbedAttempts(vector, answers, attempt + 1)

get_embedding(text, vector, answers) ==
    IF Strip(text) = ""
    THEN [raised |-> FALSE, embedding |-> Zeros(EMBEDDING_DIM),
          provider_calls |-> 0]
    ELSE EmbedAttempts(vector, answers, 0)

\* the Optional[List[float]] generate_embedding makes of the client's result
EmbeddingOrNone(r) ==
    [raised |-> FALSE,
     embedding |-> IF r.raised THEN NoVector ELSE Vec(r.embedding),
     provider_calls |-> r.provider_calls]

\* EmbeddingService.generate_embedding
generate_embedding(text, vector, answers) ==
    IF text = "" \/ Strip(text) = ""
    THEN [raised |-> FALSE, embedding |-> NoVector, provider_calls |-> 0]
    ELSE EmbeddingOrNone(get_embedding(text, vector, answers))

\* clean_batch of the sub-batch starting at position i (0-based)
CleanBatch(texts, i) ==
    [k \in 1..(Min(i + BATCH_SIZE, Len(texts)) - i) |->
        IF Strip(texts[i + k]) = "" THEN " " ELSE Strip(texts[i + k])]

(***************************************************************************)
(* Batch embedding of bounded text lists                                   *)
(***************************************************************************)
MaxTexts == 3           \* texts handed to one batch call

EmbedTexts == {"pay", "", " "}

TextLists == UNION {[1..n -> EmbedTexts] : n \in 0..MaxTexts}

\* sub-batches of a list of n texts
NumBatches(n) == (n + BATCH_SIZE - 1) \div BATCH_SIZE

EmbedAnswers(n) == [1..(EMBED_ATTEMPTS * Max(1, NumBatches(n))) -> EmbedOutcomes]

\* the provider's vector for the text at position i
PositionVector(i) == <<i, 1>>

InitEmbed ==
    /\ pc = "idle"
    /\ call = NoCall
    /\ index = {}
    /\ raw_results = <<>>
    /\ results = <<>>
    /\ relevant_chunks = <<>>
    /\ arg_chunks \in TextLists
    /\ document = <<>>
    /\ chunker = NoChunker
    /\ contracts = <<>>
    /\ ret = NoRet

GetEmbeddingsBatch ==
    /\ pc = "idle"
    /\ \E answers \in EmbedAnswers(Len(arg_chunks)) :
        /\ call' = [op |-> "get_embeddings_batch", texts |-> arg_chunks,
                    answers |-> answers]
        /\ Returned(get_embeddings_batch(
                        arg_chunks,
                        [i \in 1..Len(arg_chunks) |-> PositionVector(i)],
                        answers))
    /\ pc' = "done"
    /\ UNCHANGED <<index, raw_results, results, relevant_chunks, arg_chunks, document, chunker, contracts>>

\* get_embedding on a single text
GetEmbedding ==
    /\ pc = "idle"
    /\ Len(arg_chunks) = 1
    /\ \E answers \in [1..EMBED_ATTEMPTS -> EmbedOutcomes] :
        /\ call' = [op |-> "get_embedding", texts |-> arg_chunks,
                    answers |-> answers]
        /\ Returned(get_embedding(arg_chunks[1], PositionVector(1), answers))
    /\ pc' = "done"
    /\ UNCHANGED <<index, raw_results, results, relevant_chunks, arg_chunks,
                   document, chunker, contracts>>

\* EmbeddingService.generate_embedding on a single text
GenerateEmbedding ==
    /\ pc = "idle"
    /\ Len(arg_chunks) = 1
    /\ \E answers \in [1..EMBED_ATTEMPTS -> EmbedOutcomes] :
        /\ call' = [op |-> "generate_embedding", texts |-> arg_chunks,
                    answers |-> answers]
        /\ Returned(generate_embedding(arg_chunks[1], PositionVector(1), answers))
    /\ pc' = "done"
    /\ UNCHANGED <<index, raw_results, results, relevant_chunks, arg_chunks,
                   document, chunker, contracts>>

NextEmbed == GetEmbeddingsBatch \/ GetEmbedding \/ GenerateEmbedding

SpecEmbed == InitEmbed /\ [][NextEmbed]_vars

\* C5: get_embeddings_batch(texts) either raises or returns exactly
\* len(texts) vectors in input order; it never returns normally with the
\* vectors of a sub-batch missing (a sub-batch answered 429 on each of its
\* three attempts makes the call fail).
C5_RaisesOrReturnsAllVectors ==
    (pc = "done" /\ call.op = "get_embeddings_batch") =>
        \/ ret.status = "raised"
        \/ ret.result.embeddings =
              [i \in 1..Len(call.texts) |-> PositionVector(i)]

(***************************************************************************)
(* EmbeddingService and index_file_to_pinecone                             *)
(***************************************************************************)
\* [t for t in texts if t and t.strip()], as the positions kept
RECURSIVE ValidPositions(_, _)
ValidPositions(texts, i) ==
    IF i > Len(texts) THEN <<>>
    ELSE IF texts[i] # "" /\ Strip(texts[i]) # ""
         THEN <<i>> \o ValidPositions(texts, i + 1)
         ELSE ValidPositions(texts, i + 1)

\* the list generate_embeddings_batch returns from the client's answer
BatchResult(texts, batch) ==
    IF batch.raised THEN [i \in 1..Len(texts) |-> NoVector]
    ELSE [i \in 1..Len(batch.embeddings) |-> Vec(batch.embeddings[i])]

generate_embeddings_batch(texts, vector_of, answers) ==
    IF texts = <<>> THEN <<>>
    ELSE IF ValidPositions(texts, 1) = <<>>
    THEN [i \in 1..Len(texts) |-> NoVector]
    ELSE BatchResult(texts,
                     get_embeddings_batch(
                         [k \in 1..Len(ValidPositions(texts, 1)) |->
                             texts[ValidPositions(texts, 1)[k]]],
                         [k \in 1..Len(ValidPositions(texts, 1)) |->
                             vector_of[ValidPositions(texts, 1)[k]]],
                         answers))

\* zip(chunks, embeddings)
Enriched(chunks, embeddings) ==
    [i \in 1..Min(Len(chunks), Len(embeddings)) |->
        [text |-> chunks[i].text,
         embedding |-> embeddings[i],
         has_embedding |-> embeddings[i].some]]

embed_chunks(chunks, vector_of, answers) ==
    IF chunks = <<>> THEN <<>>
    ELSE Enriched(chunks,
                  generate_embeddings_batch(
                      [i \in 1..Len(chunks) |-> chunks[i].text],
                      vector_of, answers))

AllZero(embedding) == \A k \in 1..Len(embedding) : embedding[k] = 0

\* lines 102-111: truncate a longer embedding, zero-pad a shorter one
TruncateOrPad(embedding) ==
    IF Len(embedding) > EMBEDDING_DIM THEN SubSeq(embedding, 1, EMBEDDING_DIM)
    ELSE IF Len(embedding) < EMBEDDING_DIM
         THEN embedding \o Zeros(EMBEDDING_DIM - Len(embedding))
         ELSE embedding

\* decimal rendering of a chunk position
Str(i) == <<"0", "1", "2", "3", "4", "5", "6", "7", "8", "9">>[i + 1]

VectorId(upload_id, i) == upload_id \o "_chunk_" \o Str(i)

\* the chunks that pass the three skips of the loop
Indexable(chunk) ==
    /\ chunk.has_embedding
    /\ chunk.embedding.v # <<>>
    /\ ~AllZero(chunk.embedding.v)

\* the loop over enumerate(enriched_chunks), from position i (1-based here,
\* 0-based in the vector id and the metadata)
RECURSIVE PrepareVectors(_, _, _)
PrepareVectors(upload, enriched_chunks, i) ==
    IF i > Len(enriched_chunks) THEN <<>>
    ELSE IF ~Indexable(enriched_chunks[i])
         THEN PrepareVectors(upload, enriched_chunks, i + 1)
         ELSE <<[id |-> VectorId(upload.id, i - 1),
                 values |-> TruncateOrPad(enriched_chunks[i].embedding.v),
                 metadata |-> [file_id |-> upload.id,
                               filename |-> upload.filename,
                               text |-> enriched_chunks[i].text,
                               chunk_index |-> i - 1]]>>
              \o PrepareVectors(upload, enriched_chunks, i + 1)

\* the upsert at the end, given the prepared vectors
UpsertPrepared(vectors, pinecone_ok) ==
    [ok |-> vectors # <<>> /\ pinecone_ok,
     vectors |-> vectors,
     upserted |-> IF pinecone_ok THEN Range(vectors) ELSE {},
     raised |-> FALSE]

NotIndexed == [ok |-> FALSE, vectors |-> <<>>, upserted |-> {}, raised |-> FALSE]

index_file_to_pinecone(upload, chunks, env) ==
    IF ~upload.extraction_completed THEN NotIndexed
    ELSE IF chunks = <<>> THEN NotIndexed
    ELSE UpsertPrepared(
             PrepareVectors(upload,
                            embed_chunks(chunks, env.vector_of, env.answers), 1),
             env.pinecone_ok)

(***************************************************************************)
(* Indexing of bounded uploads                                             *)
(***************************************************************************)
MaxDocChunks == 2       \* chunks of the extracted upload

ChunkTexts == {"pay", " "}

DocChunkLists ==
    UNION {[1..n -> [text : ChunkTexts]] : n \in 0..MaxDocChunks}

\* provider vectors one shorter than, as long as and one longer than the
\* index dimension, with at most one non-zero component
ProviderVectors ==
    {v \in UNION {[1..n -> {0, 1}] :
                     n \in (EMBEDDING_DIM - 1)..(EMBEDDING_DIM + 1)} :
        SeqSum(v) <= 1}

\* the provider answers every call of one indexing run alike
SteadyAnswers(n) ==
    {[k \in 1..(EMBED_ATTEMPTS * Max(1, NumBatches(n))) |-> o] : o \in EmbedOutcomes}

Uploads == [id : {"f1"}, filename : {"a.pdf"}, extraction_completed : BOOLEAN]

InitIndex ==
    /\ pc = "idle"
    /\ call = NoCall
    /\ index = {}
    /\ raw_results = <<>>
    /\ results = <<>>
    /\ relevant_chunks = <<>>
    /\ arg_chunks \in DocChunkLists
    /\ document = <<>>
    /\ chunker = NoChunker
    /\ contracts = <<>>
    /\ ret = NoRet

\* the state left by an indexing run that computed r
Indexed(upload, env, r) ==
    /\ call' = [op |-> "index_file_to_pinecone", upload |-> upload, env |-> env]
    /\ index' = index \cup r.upserted
    /\ Returned(r)

IndexFileToPinecone ==
    /\ pc = "idle"
    /\ \E upload \in Uploads,
          vector_of \in [1..Len(arg_chunks) -> ProviderVectors],
          answers \in SteadyAnswers(Len(arg_chunks)),
          pinecone_ok \in BOOLEAN :
        Indexed(upload,
                [vector_of |-> vector_of, answers |-> answers,
                 pinecone_ok |-> pinecone_ok],
                index_file_to_pinecone(
                    upload, arg_chunks,
                    [vector_of |-> vector_of, answers |-> answers,
                     pinecone_ok |-> pinecone_ok]))
    /\ pc' = "done"
    /\ UNCHANGED <<raw_results, results, relevant_chunks, arg_chunks, document, chunker, contracts>>

NextIndex == IndexFileToPinecone

SpecIndex == InitIndex /\ [][NextIndex]_vars

\* C4: no all-zero vector is ever upserted: the values passed to
\* upsert_vectors by index_file_to_pinecone, after dimension normalization,
\* contain at least one non-zero component, whatever the length of the
\* embedding produced for the chunk.
C4_NoZeroVectorUpserted ==
    (pc = "done" /\ call.op = "index_file_to_pinecone") =>
        \A k \in 1..Len(ret.result.vectors) :
            \E c \in 1..EMBEDDING_DIM : ret.result.vectors[k].values[c] # 0

(***************************************************************************)
(* EnhancedChunkingService: texts are sequences of characters              *)
(***************************************************************************)
NL == "\n"

IsSpace(c) == c \in {" ", NL}

RECURSIVE LStrip(_)
LStrip(s) == IF s # <<>> /\ IsSpace(s[1]) THEN LStrip(Tail(s)) ELSE s

RECURSIVE RStrip(_)
RStrip(s) ==
    IF s # <<>> /\ IsSpace(s[Len(s)]) THEN RStrip(SubSeq(s, 1, Len(s) - 1)) ELSE s

\* str.strip()
StripChars(s) == RStrip(LStrip(s))

\* the least element of a non-empty set of positions
First(positions) == CHOOSE i \in positions : \A j \in positions : i <= j

\* cut s at position i: the piece before it joined to cur, and what follows
\* the `width` characters of the separator
Before(s, cur, i) == cur \o SubSeq(s, 1, i - 1)
After(s, i, width) == SubSeq(s, i + width, Len(s))

NewlinesIn(text) == {i \in 1..Len(text) : text[i] = NL}

\* text.split('\n'), cur being the line read so far
RECURSIVE SplitLines(_, _)
SplitLines(text, cur) ==
    IF NewlinesIn(text) = {} THEN <<cur \o text>>
    ELSE <<Before(text, cur, First(NewlinesIn(text)))>>
            \o SplitLines(After(text, First(NewlinesIn(text)), 1), <<>>)

BlankLinesIn(text) ==
    {i \in 1..(Len(text) - 1) : text[i] = NL /\ text[i + 1] = NL}

\* text.split('\n\n')
RECURSIVE SplitParagraphs(_, _)
SplitParagraphs(text, cur) ==
    IF BlankLinesIn(text) = {} THEN <<cur \o text>>
    ELSE <<Before(text, cur, First(BlankLinesIn(text)))>>
            \o SplitParagraphs(After(text, First(BlankLinesIn(text)), 2), <<>>)

\* sep.join(parts)
RECURSIVE Join(_, _)
Join(parts, sep) ==
    IF parts = <<>> THEN <<>>
    ELSE IF Len(parts) = 1 THEN parts[1]
         ELSE parts[1] \o sep \o Join(Tail(parts), sep)

\* [s.strip() for s in parts if s.strip()]
RECURSIVE StrippedNonEmpty(_)
StrippedNonEmpty(parts) ==
    IF parts = <<>> THEN <<>>
    ELSE IF StripChars(parts[1]) = <<>> THEN StrippedNonEmpty(Tail(parts))
         ELSE <<StripChars(parts[1])>> \o StrippedNonEmpty(Tail(parts))

\* the lines documents are made of
HEADING_LINE == <<"F", "e", "e", "s", ":">>
CLAUSE_LINE == <<"1", ".", "1", " ", "A">>
LONG_SENTENCE == <<"B", "u", "y", "e", "r", " ", "p", "a", "y", "s", " ", "s", "e", "l", "l", "e", "r", ".">>
BODY_LINES == {<<"P", "a", "y", " ", "n", "o", "w", ".">>, <<"N", "e", "t", " ", "3", "0", ".">>, <<"O", "k", ".">>, LONG_SENTENCE}
BLANK_LINE == <<>>

UpperLetters == <<"A", "B", "C", "D", "E", "F", "G", "H", "I", "J", "K", "L", "M", "N", "O", "P", "Q", "R", "S", "T", "U", "V", "W", "X", "Y", "Z">>
LowerLetters == <<"a", "b", "c", "d", "e", "f", "g", "h", "i", "j", "k", "l", "m", "n", "o", "p", "q", "r", "s", "t", "u", "v", "w", "x", "y", "z">>
Digits == {"0", "1", "2", "3", "4", "5", "6", "7", "8", "9"}

Uppercase == Range(UpperLetters)

\* c.lower()
LowerChar(c) ==
    IF c \in Uppercase
    THEN LowerLetters[CHOOSE i \in 1..Len(UpperLetters) : UpperLetters[i] = c]
    ELSE c

\* text.lower()
LowerChars(text) == [i \in 1..Len(text) |-> LowerChar(text[i])]

IsLetter(c) == LowerChar(c) \in Range(LowerLetters)

\* needle occurs in hay
Occurs(needle, hay) ==
    \E i \in 0..(Len(hay) - Len(needle)) :
        SubSeq(hay, i + 1, i + Len(needle)) = needle

StartsWith(s, prefix) ==
    Len(s) >= Len(prefix) /\ SubSeq(s, 1, Len(prefix)) = prefix

Drop(s, n) == SubSeq(s, n + 1, Len(s))

\* length of the whitespace run text starts with
RECURSIVE SpaceRun(_)
SpaceRun(text) ==
    IF text # <<>> /\ IsSpace(text[1]) THEN 1 + SpaceRun(Tail(text)) ELSE 0

RECURSIVE DigitRun(_)
DigitRun(s) == IF s # <<>> /\ s[1] \in Digits THEN 1 + DigitRun(Tail(s)) ELSE 0

RECURSIVE LetterRun(_)
LetterRun(s) == IF s # <<>> /\ IsLetter(s[1]) THEN 1 + LetterRun(Tail(s)) ELSE 0

\* run of [A-Z\s] read without regard to case
RECURSIVE LetterSpaceRun(_)
LetterSpaceRun(s) ==
    IF s # <<>> /\ (IsLetter(s[1]) \/ IsSpace(s[1]))
    THEN 1 + LetterSpaceRun(Tail(s)) ELSE 0

AfterSpaces(s) == Drop(s, SpaceRun(s))
AfterDigits(s) == Drop(s, DigitRun(s))
AfterOptionalMark(s) == IF s # <<>> /\ s[1] \in {".", ":"} THEN Tail(s) ELSE s

\* the rest of r'\s+\d+[\.:]?\s*[A-Z]' after the leading word
NumberedTitle(s) ==
    /\ SpaceRun(s) >= 1
    /\ DigitRun(AfterSpaces(s)) >= 1
    /\ AfterSpaces(AfterOptionalMark(AfterDigits(AfterSpaces(s)))) # <<>>
    /\ IsLetter(AfterSpaces(AfterOptionalMark(AfterDigits(AfterSpaces(s))))[1])

\* r'^SECTION\s+\d+[\.:]?\s*[A-Z]' and r'^Article\s+\d+[\.:]?\s*[A-Z]'
MatchesSectionWord(s) ==
    \/ StartsWith(LowerChars(s), <<"s", "e", "c", "t", "i", "o", "n">>) /\ NumberedTitle(Drop(s, 7))
    \/ StartsWith(LowerChars(s), <<"a", "r", "t", "i", "c", "l", "e">>) /\ NumberedTitle(Drop(s, 7))

\* the rest of r'^\d+\.\s+[A-Z][A-Z\s]{10,}' after the digits
DottedCapsTitle(s) ==
    /\ s # <<>> /\ s[1] = "."
    /\ SpaceRun(Tail(s)) >= 1
    /\ AfterSpaces(Tail(s)) # <<>>
    /\ IsLetter(AfterSpaces(Tail(s))[1])
    /\ LetterSpaceRun(Tail(AfterSpaces(Tail(s)))) >= 10

\* r'^\d+\.\s+[A-Z][A-Z\s]{10,}'
MatchesNumberedCaps(s) == DigitRun(s) >= 1 /\ DottedCapsTitle(AfterDigits(s))

\* r'^[A-Z][A-Z\s]{15,}$'
MatchesAllCaps(s) ==
    /\ s # <<>> /\ IsLetter(s[1])
    /\ Len(s) >= 16
    /\ LetterSpaceRun(Tail(s)) = Len(s) - 1

\* r'[A-Z][a-z]+(?:\s+[A-Z][a-z]+)*:\s*$' from a word on
RECURSIVE TitleWords(_)
TitleWords(s) ==
    /\ LetterRun(s) >= 2
    /\ Drop(s, LetterRun(s)) # <<>>
    /\ IF Drop(s, LetterRun(s))[1] = ":"
       THEN AfterSpaces(Tail(Drop(s, LetterRun(s)))) = <<>>
       ELSE /\ SpaceRun(Drop(s, LetterRun(s))) >= 1
            /\ TitleWords(AfterSpaces(Drop(s, LetterRun(s))))

\* re.match over SECTION_PATTERNS with re.IGNORECASE
MatchesSectionPattern(line_stripped) ==
    \/ MatchesSectionWord(line_stripped)
    \/ MatchesNumberedCaps(line_stripped)
    \/ MatchesAllCaps(line_stripped)
    \/ TitleWords(line_stripped)

\* the rest of r'^\d+\.\d+\.?\s+[A-Z]' after the first digits
ClauseNumberRest(s) ==
    /\ s # <<>> /\ s[1] = "."
    /\ DigitRun(Tail(s)) >= 1
    /\ LET r == AfterDigits(Tail(s))
           t == IF r # <<>> /\ r[1] = "." THEN Tail(r) ELSE r
       IN  /\ SpaceRun(t) >= 1
           /\ AfterSpaces(t) # <<>>
           /\ AfterSpaces(t)[1] \in Uppercase

\* the rest of r'^\([a-z]\)\s+[A-Z]' or r'^\([ivx]+\)\s+[A-Z]' after ")"
LetteredRest(s) ==
    /\ SpaceRun(s) >= 1
    /\ AfterSpaces(s) # <<>>
    /\ AfterSpaces(s)[1] \in Uppercase

RECURSIVE RomanRun(_)
RomanRun(s) ==
    IF s # <<>> /\ s[1] \in {"i", "v", "x"} THEN 1 + RomanRun(Tail(s)) ELSE 0

\* re.match over CLAUSE_PATTERNS
MatchesClausePattern(line_stripped) ==
    \/ DigitRun(line_stripped) >= 1
          /\ ClauseNumberRest(AfterDigits(line_stripped))
    \/ /\ Len(line_stripped) >= 3
       /\ line_stripped[1] = "("
       /\ line_stripped[2] \in Range(LowerLetters)
       /\ line_stripped[3] = ")"
       /\ LetteredRest(Drop(line_stripped, 3))
    \/ /\ line_stripped # <<>> /\ line_stripped[1] = "("
       /\ RomanRun(Tail(line_stripped)) >= 1
       /\ Drop(line_stripped, 1 + RomanRun(Tail(line_stripped))) # <<>>
       /\ Drop(line_stripped, 1 + RomanRun(Tail(line_stripped)))[1] = ")"
       /\ LetteredRest(Drop(line_stripped, 2 + RomanRun(Tail(line_stripped))))

\* the line numbers (0-based) of structure['sections'] and
\* structure['headings']
identify_structure(text) ==
    LET lines == SplitLines(text, <<>>)
    IN  [sections |-> {i \in 0..(Len(lines) - 1) :
                          /\ StripChars(lines[i + 1]) # <<>>
                          /\ MatchesSectionPattern(StripChars(lines[i + 1]))},
         headings |-> {i \in 0..(Len(lines) - 1) :
                          /\ StripChars(lines[i + 1]) # <<>>
                          /\ MatchesClausePattern(StripChars(lines[i + 1]))}]

SectionOf(title, current_text) ==
    [type |-> "section", title |-> title, text |-> Join(current_text, <<NL>>)]

\* one pass of the loop over enumerate(lines); st holds sections,
\* current_section (as has_section), current_title and current_text
SectionStep(st, i, line, structure) ==
    IF i \in structure.sections
    THEN [sections |-> IF st.has_section
                       THEN Append(st.sections,
                                   SectionOf(st.current_title, st.current_text))
                       ELSE st.sections,
          has_section |-> TRUE,
          current_title |-> StripChars(line),
          current_text |-> <<>>]
    ELSE IF i \in structure.headings
    THEN [sections |-> IF st.has_section /\ st.current_text # <<>>
                       THEN Append(st.sections,
                                   SectionOf(st.current_title, st.current_text))
                       ELSE st.sections,
          has_section |-> TRUE,
          current_title |-> StripChars(line),
          current_text |-> <<>>]
    ELSE [st EXCEPT !.current_text = Append(@, line)]

RECURSIVE SectionLoop(_, _, _, _)
SectionLoop(lines, structure, i, st) ==
    IF i >= Len(lines) THEN st
    ELSE SectionLoop(lines, structure, i + 1,
                     SectionStep(st, i, lines[i + 1], structure))

WholeText(text) == <<[type |-> "paragraph", title |-> NONE, text |-> text]>>

\* the part of _split_into_sections after the loop
FinalSections(text, st) ==
    IF st.has_section /\ st.current_text # <<>>
    THEN Append(st.sections, SectionOf(st.current_title, st.current_text))
    ELSE IF st.sections = <<>> THEN WholeText(text)
         ELSE st.sections

split_into_sections(text, structure) ==
    IF structure.sections = {} /\ structure.headings = {}
    THEN WholeText(text)
    ELSE FinalSections(text,
                       SectionLoop(SplitLines(text, <<>>), structure, 0,
                                   [sections |-> <<>>, has_section |-> FALSE,
                                    current_title |-> NONE,
                                    current_text |-> <<>>]))

SentenceEnd == {".", "!", "?"}

\* the positions of text where whitespace follows a sentence end and runs up
\* to an upper-case letter; cur is the piece read before text
SentenceBreaks(text, cur) ==
    {i \in 1..Len(text) :
        /\ IsSpace(text[i])
        /\ IF i = 1 THEN cur # <<>> /\ cur[Len(cur)] \in SentenceEnd
                    ELSE text[i - 1] \in SentenceEnd
        /\ i - 1 + SpaceRun(Drop(text, i - 1)) < Len(text)
        /\ text[i + SpaceRun(Drop(text, i - 1))] \in Uppercase}

\* re.split(r'(?<=[.!?])\s+(?=[A-Z])', text), cur being the piece read so far
RECURSIVE ReSplit(_, _)
ReSplit(text, cur) ==
    IF SentenceBreaks(text, cur) = {} THEN <<cur \o text>>
    ELSE <<Before(text, cur, First(SentenceBreaks(text, cur)))>>
            \o ReSplit(After(text, First(SentenceBreaks(text, cur)),
                             SpaceRun(Drop(text, First(SentenceBreaks(text, cur)) - 1))),
                       <<>>)

split_sentences(text) == StrippedNonEmpty(ReSplit(text, <<>>))

CLAUSE_KEYWORDS ==
    <<[clause_type |-> "payment",
       keywords |-> {<<"p", "a", "y", "m", "e", "n", "t">>,
                     <<"c", "o", "m", "p", "e", "n", "s", "a", "t", "i", "o", "n">>,
                     <<"f", "e", "e">>,
                     <<"i", "n", "v", "o", "i", "c", "e">>,
                     <<"b", "i", "l", "l", "i", "n", "g">>,
                     <<"p", "r", "i", "c", "e">>}],
      [clause_type |-> "termination",
       keywords |-> {<<"t", "e", "r", "m", "i", "n", "a", "t", "i", "o", "n">>,
                     <<"t", "e", "r", "m", "i", "n", "a", "t", "e">>,
                     <<"c", "a", "n", "c", "e", "l">>,
                     <<"e", "x", "p", "i", "r", "e">>,
                     <<"e", "n", "d", " ", "o", "f", " ", "a", "g", "r", "e", "e", "m", "e", "n", "t">>}],
      [clause_type |-> "liability",
       keywords |-> {<<"l", "i", "a", "b", "i", "l", "i", "t", "y">>,
                     <<"l", "i", "a", "b", "l", "e">>,
                     <<"d", "a", "m", "a", "g", "e">>,
                     <<"l", "o", "s", "s">>}],
      [clause_type |-> "indemnification",
       keywords |-> {<<"i", "n", "d", "e", "m", "n", "i", "f">>,
                     <<"h", "o", "l", "d", " ", "h", "a", "r", "m", "l", "e", "s", "s">>,
                     <<"d", "e", "f", "e", "n", "d">>}],
      [clause_type |-> "confidentiality",
       keywords |-> {<<"c", "o", "n", "f", "i", "d", "e", "n", "t", "i", "a", "l">>,
                     <<"n", "o", "n", "-", "d", "i", "s", "c", "l", "o", "s", "u", "r", "e">>,
                     <<"n", "d", "a">>,
                     <<"p", "r", "o", "p", "r", "i", "e", "t", "a", "r", "y">>}],
      [clause_type |-> "scope",
       keywords |-> {<<"s", "c", "o", "p", "e", " ", "o", "f", " ", "w", "o", "r", "k">>,
                     <<"s", "e", "r", "v", "i", "c", "e", "s">>,
                     <<"d", "e", "l", "i", "v", "e", "r", "a", "b", "l", "e", "s">>,
                     <<"w", "o", "r", "k", " ", "t", "o", " ", "b", "e", " ", "p", "e", "r", "f", "o", "r", "m", "e", "d">>}],
      [clause_type |-> "warranty",
       keywords |-> {<<"w", "a", "r", "r", "a", "n", "t", "y">>,
                     <<"w", "a", "r", "r", "a", "n", "t">>,
                     <<"g", "u", "a", "r", "a", "n", "t", "e", "e">>}],
      [clause_type |-> "insurance",
       keywords |-> {<<"i", "n", "s", "u", "r", "a", "n", "c", "e">>,
                     <<"c", "o", "v", "e", "r", "a", "g", "e">>,
                     <<"p", "o", "l", "i", "c", "y">>}],
      [clause_type |-> "dispute",
       keywords |-> {<<"d", "i", "s", "p", "u", "t", "e">>,
                     <<"a", "r", "b", "i", "t", "r", "a", "t", "i", "o", "n">>,
                     <<"m", "e", "d", "i", "a", "t", "i", "o", "n">>,
                     <<"j", "u", "r", "i", "s", "d", "i", "c", "t", "i", "o", "n">>}]>>

\* the clause types with a keyword in the lower-cased text, in table order
RECURSIVE DetectFrom(_, _)
DetectFrom(text_lower, i) ==
    IF i > Len(CLAUSE_KEYWORDS) THEN <<>>
    ELSE IF \E keyword \in CLAUSE_KEYWORDS[i].keywords : Occurs(keyword, text_lower)
         THEN <<CLAUSE_KEYWORDS[i].clause_type>> \o DetectFrom(text_lower, i + 1)
         ELSE DetectFrom(text_lower, i + 1)

detect_clause_types(text) == DetectFrom(LowerChars(text), 1)

create_enhanced_chunk(text, chunk_index, section_title) ==
    [chunk_index |-> chunk_index,
     text |-> text,
     char_count |-> Len(text),
     section_title |-> section_title,
     has_section_title |-> section_title # NONE,
     detected_clauses |-> detect_clause_types(text)]

\* s[-n:] for n > 0
LastChars(s, n) == SubSeq(s, Max(1, Len(s) - n + 1), Len(s))

\* "if current_chunk.strip() and len(current_chunk.strip()) >= min_chunk_size"
Keeps(current_chunk, cfg) ==
    /\ StripChars(current_chunk) # <<>>
    /\ Len(StripChars(current_chunk)) >= cfg.min_chunk_size

\* the save of the current chunk; st holds chunks, current_chunk, chunk_index
Saved(st, section_title, cfg) ==
    IF Keeps(st.current_chunk, cfg)
    THEN [st EXCEPT !.chunks = Append(@, create_enhanced_chunk(
                                             StripChars(st.current_chunk),
                                             st.chunk_index, section_title)),
                    !.chunk_index = @ + 1]
    ELSE st

\* the new chunk started after a save
Restarted(st, piece, sep, cfg) ==
    [st EXCEPT !.current_chunk =
        IF st.chunks # <<>> /\ cfg.overlap > 0
        THEN StripChars(LastChars(@, cfg.overlap)) \o sep \o piece \o sep
        ELSE piece \o sep]

\* a sentence (sep " ") or a paragraph (sep "\n\n") is added to the chunk
AddPiece(st, piece, sep, section_title, cfg) ==
    IF Len(st.current_chunk) + Len(piece) + 2 <= cfg.chunk_size
    THEN [st EXCEPT !.current_chunk = @ \o piece \o sep]
    ELSE Restarted(Saved(st, section_title, cfg), piece, sep, cfg)

RECURSIVE AddSentences(_, _, _, _)
AddSentences(st, sentences, section_title, cfg) ==
    IF sentences = <<>> THEN st
    ELSE AddSentences(AddPiece(st, sentences[1], <<" ">>, section_title, cfg),
                      Tail(sentences), section_title, cfg)

RECURSIVE AddParagraphs(_, _, _, _)
AddParagraphs(st, paragraphs, section_title, cfg) ==
    IF paragraphs = <<>> THEN st
    ELSE AddParagraphs(
             IF Len(paragraphs[1]) > cfg.chunk_size
             THEN AddSentences(st, split_sentences(paragraphs[1]),
                               section_title, cfg)
             ELSE AddPiece(st, paragraphs[1], <<NL, NL>>, section_title, cfg),
             Tail(paragraphs), section_title, cfg)

chunk_section(section, start_index, cfg) ==
    Saved(AddParagraphs([chunks |-> <<>>, current_chunk |-> <<>>,
                         chunk_index |-> start_index],
                        StrippedNonEmpty(SplitParagraphs(section.text, <<>>)),
                        section.title, cfg),
          section.title, cfg).chunks

RECURSIVE ChunkSections(_, _, _)
ChunkSections(sections, chunk_index, cfg) ==
    IF sections = <<>> THEN <<>>
    ELSE chunk_section(sections[1], chunk_index, cfg)
         \o ChunkSections(Tail(sections),
                          chunk_index + Len(chunk_section(sections[1],
                                                          chunk_index, cfg)),
                          cfg)

chunk_document(text, cfg) ==
    IF text = <<>> \/ StripChars(text) = <<>> THEN <<>>
    ELSE ChunkSections(split_into_sections(text, identify_structure(text)),
                       0, cfg)

(***************************************************************************)
(* Chunking of bounded documents                                           *)
(***************************************************************************)
MaxLines == 3           \* lines of the document

LineVocabulary == {HEADING_LINE, CLAUSE_LINE, BLANK_LINE} \cup BODY_LINES

\* the two-section contract of the specification's chunking scenario
SECTION_1_TITLE == <<"S", "E", "C", "T", "I", "O", "N", " ", "1", ":", " ", "P", "A", "Y", "M", "E", "N", "T">>
SECTION_2_TITLE == <<"S", "E", "C", "T", "I", "O", "N", " ", "2", ":", " ", "T", "E", "R", "M", "I", "N", "A", "T", "I", "O", "N">>
SCENARIO_TEXT ==
    Join(<<SECTION_1_TITLE,
           <<"P", "a", "y", "e", "r", " ", "s", "h", "a", "l", "l", " ", "r", "e", "m", "i", "t", " ", "$", "5", "0", "0", " ", "w", "i", "t", "h", "i", "n", " ", "3", "0", " ", "d", "a", "y", "s", ".">>,
           <<>>,
           SECTION_2_TITLE,
           <<"E", "i", "t", "h", "e", "r", " ", "p", "a", "r", "t", "y", " ", "m", "a", "y", " ", "t", "e", "r", "m", "i", "n", "a", "t", "e", " ", "w", "i", "t", "h", " ", "3", "0", " ", "d", "a", "y", "s", " ", "n", "o", "t", "i", "c", "e", ".">>>>,
         <<NL>>)

Documents ==
    {Join(lines, <<NL>>) :
        lines \in UNION {[1..n -> LineVocabulary] : n \in 1..MaxLines}}
    \cup {SCENARIO_TEXT}

\* __init__ stores its three arguments as given
EnhancedChunkingService(chunk_size, overlap, min_chunk_size) ==
    [chunk_size |-> chunk_size, overlap |-> overlap,
     min_chunk_size |-> min_chunk_size]

\* the default configuration, two small ones, the one of the chunking
\* scenario, and two whose overlap is not below the chunk size
Chunkers ==
    {EnhancedChunkingService(800, 150, 100),
     EnhancedChunkingService(12, 3, 4),
     EnhancedChunkingService(12, 0, 1),
     EnhancedChunkingService(200, 150, 100),
     EnhancedChunkingService(12, 12, 1),
     EnhancedChunkingService(8, 20, 1)}

InitChunk ==
    /\ pc = "idle"
    /\ call = NoCall
    /\ index = {}
    /\ raw_results = <<>>
    /\ results = <<>>
    /\ relevant_chunks = <<>>
    /\ arg_chunks = <<>>
    /\ document \in Documents
    /\ chunker \in Chunkers
    /\ contracts = <<>>
    /\ ret = NoRet

ChunkDocument ==
    /\ pc = "idle"
    /\ call' = [op |-> "chunk_document"]
    /\ ret' = [status |-> "returned", result |-> chunk_document(document, chunker)]
    /\ pc' = "done"
    /\ UNCHANGED <<index, raw_results, results, relevant_chunks, arg_chunks,
                   document, chunker, contracts>>

NextChunk == ChunkDocument

SpecChunk == InitChunk /\ [][NextChunk]_vars

\* the non-blank lines of the document that are no heading
BodyLinesOf(text) ==
    {StripChars(l) : l \in {x \in Range(SplitLines(text, <<>>)) :
                               /\ StripChars(x) # <<>>
                               /\ ~MatchesSectionPattern(StripChars(x))
                               /\ ~MatchesClausePattern(StripChars(x))}}

\* C2: chunking never drops body content: each non-blank body line of the
\* input (before the first heading, in a short section, at the tail of a
\* section) appears in the text of at least one returned chunk.
C2_NoBodyLineDropped ==
    (pc = "done" /\ call.op = "chunk_document") =>
        \A l \in BodyLinesOf(document) :
            \E k \in 1..Len(ret.result) : Occurs(l, ret.result[k].text)

\* C11: a chunker configured with overlap >= chunk_size is rejected before
\* any chunk is produced: chunk_document on it fails instead of returning
\* chunks.
C11_OverlapNotBelowSizeRejected ==
    (pc = "done" /\ call.op = "chunk_document"
        /\ chunker.overlap >= chunker.chunk_size) =>
        ret.status = "raised"

GotEmbedding ==
    pc = "done" /\ call.op = "get_embedding" /\ Strip(call.texts[1]) # ""

\* C12: get_embedding makes at most 3 provider calls; a call answered with a
\* rate limit (429) or a 5xx status is retried while attempts remain, and
\* the invocation fails only after 3 failed attempts.
C12_RetriesRateLimitAnd5xx ==
    GotEmbedding =>
        /\ ret.result.provider_calls <= 3
        /\ \A k \in 1..ret.result.provider_calls :
              (k < 3 /\ call.answers[k] \in {"429", "5xx"}) =>
                  ret.result.provider_calls > k
        /\ ret.status = "raised" => ret.result.provider_calls = 3

\* C13: an empty or whitespace-only text never yields a vector:
\* generate_embedding and get_embedding return a failure for it, and the
\* batch path sends no placeholder for it to the provider.
C13_BlankTextRejected ==
    /\ (pc = "done" /\ call.op = "generate_embedding"
           /\ Strip(call.texts[1]) = "") =>
          ret.result.embedding = NoVector
    /\ (pc = "done" /\ call.op = "get_embedding"
           /\ Strip(call.texts[1]) = "") =>
          ret.status = "raised"
    /\ (pc = "done" /\ call.op = "get_embeddings_batch"
           /\ ret.result.provider_calls > 0) =>
          \A k \in 1..Len(CleanBatch(call.texts, 0)) :
              Strip(call.texts[k]) = "" => CleanBatch(call.texts, 0)[k] # " "

ScenarioChunked ==
    /\ pc = "done" /\ call.op = "chunk_document"
    /\ document = SCENARIO_TEXT
    /\ chunker = EnhancedChunkingService(200, 150, 100)

\* C14: chunk_document on the two-section scenario text with chunk_size=200
\* (other parameters at their defaults) returns exactly 2 chunks, the first
\* titled 'SECTION 1: PAYMENT' and tagged 'payment', the second titled
\* 'SECTION 2: TERMINATION' and tagged 'termination'.
C14_ScenarioGivesTwoChunks ==
    ScenarioChunked =>
        /\ Len(ret.result) = 2
        /\ ret.result[1].section_title = SECTION_1_TITLE
        /\ "payment" \in Range(ret.result[1].detected_clauses)
        /\ ret.result[2].section_title = SECTION_2_TITLE
        /\ "termination" \in Range(ret.result[2].detected_clauses)

(***************************************************************************)
(* QueryRewriter.detect_intent; scores are in tenths                       *)
(***************************************************************************)
INTENT_PATTERNS ==
    <<[intent |-> "payment",
       keywords |-> <<<<"p", "a", "y", "m", "e", "n", "t">>,
                     <<"p", "a", "y">>,
                     <<"c", "o", "m", "p", "e", "n", "s", "a", "t", "i", "o", "n">>,
                     <<"f", "e", "e">>,
                     <<"i", "n", "v", "o", "i", "c", "e">>,
                     <<"b", "i", "l", "l", "i", "n", "g">>,
                     <<"p", "r", "i", "c", "e">>,
                     <<"c", "o", "s", "t">>,
                     <<"a", "m", "o", "u", "n", "t">>,
                     <<"r", "e", "m", "u", "n", "e", "r", "a", "t", "i", "o", "n">>>>,
       questions |-> <<<<"h", "o", "w", " ", "m", "u", "c", "h">>,
                      <<"w", "h", "a", "t", " ", "i", "s", " ", "t", "h", "e", " ", "p", "a", "y", "m", "e", "n", "t">>,
                      <<"p", "a", "y", "m", "e", "n", "t", " ", "t", "e", "r", "m", "s">>,
                      <<"w", "h", "e", "n", " ", "i", "s", " ", "p", "a", "y", "m", "e", "n", "t">>>>],
      [intent |-> "termination",
       keywords |-> <<<<"t", "e", "r", "m", "i", "n", "a", "t", "i", "o", "n">>,
                     <<"t", "e", "r", "m", "i", "n", "a", "t", "e">>,
                     <<"c", "a", "n", "c", "e", "l">>,
                     <<"e", "n", "d">>,
                     <<"e", "x", "p", "i", "r", "e">>,
                     <<"e", "x", "p", "i", "r", "a", "t", "i", "o", "n">>,
                     <<"c", "a", "n", "c", "e", "l">>,
                     <<"r", "e", "s", "c", "i", "n", "d">>>>,
       questions |-> <<<<"h", "o", "w", " ", "t", "o", " ", "t", "e", "r", "m", "i", "n", "a", "t", "e">>,
                      <<"t", "e", "r", "m", "i", "n", "a", "t", "i", "o", "n", " ", "c", "l", "a", "u", "s", "e">>,
                      <<"w", "h", "e", "n", " ", "c", "a", "n", " ", "I", " ", "c", "a", "n", "c", "e", "l">>>>],
      [intent |-> "liability",
       keywords |-> <<<<"l", "i", "a", "b", "i", "l", "i", "t", "y">>,
                     <<"l", "i", "a", "b", "l", "e">>,
                     <<"r", "e", "s", "p", "o", "n", "s", "i", "b", "l", "e">>,
                     <<"r", "e", "s", "p", "o", "n", "s", "i", "b", "i", "l", "i", "t", "y">>,
                     <<"d", "a", "m", "a", "g", "e">>,
                     <<"l", "o", "s", "s">>,
                     <<"h", "a", "r", "m">>>>,
       questions |-> <<<<"w", "h", "o", " ", "i", "s", " ", "l", "i", "a", "b", "l", "e">>,
                      <<"l", "i", "a", "b", "i", "l", "i", "t", "y", " ", "c", "l", "a", "u", "s", "e">>,
                      <<"w", "h", "a", "t", " ", "a", "r", "e", " ", "t", "h", "e", " ", "l", "i", "a", "b", "i", "l", "i", "t", "i", "e", "s">>>>],
      [intent |-> "indemnification",
       keywords |-> <<<<"i", "n", "d", "e", "m", "n", "i", "f">>,
                     <<"i", "n", "d", "e", "m", "n", "i", "t", "y">>,
                     <<"h", "o", "l", "d", " ", "h", "a", "r", "m", "l", "e", "s", "s">>,
                     <<"d", "e", "f", "e", "n", "d">>,
                     <<"d", "e", "f", "e", "n", "s", "e">>>>,
       questions |-> <<<<"i", "n", "d", "e", "m", "n", "i", "f", "i", "c", "a", "t", "i", "o", "n">>,
                      <<"w", "h", "o", " ", "i", "n", "d", "e", "m", "n", "i", "f", "i", "e", "s">>,
                      <<"i", "n", "d", "e", "m", "n", "i", "t", "y", " ", "c", "l", "a", "u", "s", "e">>>>],
      [intent |-> "scope",
       keywords |-> <<<<"s", "c", "o", "p", "e">>,
                     <<"w", "o", "r", "k">>,
                     <<"s", "e", "r", "v", "i", "c", "e", "s">>,
                     <<"d", "e", "l", "i", "v", "e", "r", "a", "b", "l", "e", "s">>,
                     <<"o", "b", "l", "i", "g", "a", "t", "i", "o", "n", "s">>,
                     <<"d", "u", "t", "i", "e", "s">>,
                     <<"r", "e", "s", "p", "o", "n", "s", "i", "b", "i", "l", "i", "t", "i", "e", "s">>>>,
       questions |-> <<<<"w", "h", "a", "t", " ", "i", "s", " ", "t", "h", "e", " ", "s", "c", "o", "p", "e">>,
                      <<"s", "c", "o", "p", "e", " ", "o", "f", " ", "w", "o", "r", "k">>,
                      <<"w", "h", "a", "t", " ", "s", "e", "r", "v", "i", "c", "e", "s">>,
                      <<"d", "e", "l", "i", "v", "e", "r", "a", "b", "l", "e", "s">>>>],
      [intent |-> "confidentiality",
       keywords |-> <<<<"c", "o", "n", "f", "i", "d", "e", "n", "t", "i", "a", "l">>,
                     <<"n", "o", "n", "-", "d", "i", "s", "c", "l", "o", "s", "u", "r", "e">>,
                     <<"n", "d", "a">>,
                     <<"p", "r", "o", "p", "r", "i", "e", "t", "a", "r", "y">>,
                     <<"s", "e", "c", "r", "e", "t">>,
                     <<"p", "r", "i", "v", "a", "c", "y">>>>,
       questions |-> <<<<"c", "o", "n", "f", "i", "d", "e", "n", "t", "i", "a", "l", "i", "t", "y">>,
                      <<"n", "o", "n", "-", "d", "i", "s", "c", "l", "o", "s", "u", "r", "e">>,
                      <<"w", "h", "a", "t", " ", "i", "s", " ", "c", "o", "n", "f", "i", "d", "e", "n", "t", "i", "a", "l">>>>],
      [intent |-> "warranty",
       keywords |-> <<<<"w", "a", "r", "r", "a", "n", "t", "y">>,
                     <<"w", "a", "r", "r", "a", "n", "t">>,
                     <<"g", "u", "a", "r", "a", "n", "t", "e", "e">>,
                     <<"r", "e", "p", "r", "e", "s", "e", "n", "t", "a", "t", "i", "o", "n">>,
                     <<"w", "a", "r", "r", "a", "n", "t", "i", "e", "s">>>>,
       questions |-> <<<<"w", "a", "r", "r", "a", "n", "t", "y">>,
                      <<"w", "h", "a", "t", " ", "w", "a", "r", "r", "a", "n", "t", "i", "e", "s">>,
                      <<"g", "u", "a", "r", "a", "n", "t", "e", "e">>>>],
      [intent |-> "insurance",
       keywords |-> <<<<"i", "n", "s", "u", "r", "a", "n", "c", "e">>,
                     <<"c", "o", "v", "e", "r", "a", "g", "e">>,
                     <<"p", "o", "l", "i", "c", "y">>,
                     <<"i", "n", "s", "u", "r", "e", "d">>,
                     <<"i", "n", "s", "u", "r", "e", "r">>>>,
       questions |-> <<<<"i", "n", "s", "u", "r", "a", "n", "c", "e">>,
                      <<"w", "h", "a", "t", " ", "i", "n", "s", "u", "r", "a", "n", "c", "e">>,
                      <<"c", "o", "v", "e", "r", "a", "g", "e", " ", "r", "e", "q", "u", "i", "r", "e", "m", "e", "n", "t", "s">>>>],
      [intent |-> "dispute",
       keywords |-> <<<<"d", "i", "s", "p", "u", "t", "e">>,
                     <<"a", "r", "b", "i", "t", "r", "a", "t", "i", "o", "n">>,
                     <<"m", "e", "d", "i", "a", "t", "i", "o", "n">>,
                     <<"j", "u", "r", "i", "s", "d", "i", "c", "t", "i", "o", "n">>,
                     <<"g", "o", "v", "e", "r", "n", "i", "n", "g", " ", "l", "a", "w">>,
                     <<"l", "i", "t", "i", "g", "a", "t", "i", "o", "n">>>>,
       questions |-> <<<<"d", "i", "s", "p", "u", "t", "e", " ", "r", "e", "s", "o", "l", "u", "t", "i", "o", "n">>,
                      <<"h", "o", "w", " ", "t", "o", " ", "r", "e", "s", "o", "l", "v", "e", " ", "d", "i", "s", "p", "u", "t", "e", "s">>,
                      <<"j", "u", "r", "i", "s", "d", "i", "c", "t", "i", "o", "n">>>>]>>

KEYWORD_SCORE == 3      \* 0.3 for each keyword found
QUESTION_SCORE == 5     \* 0.5 for each question pattern found
FULL_SCORE == 10        \* 1.0
CONFIDENCE_FLOOR == 3   \* 0.3

\* sum(1 for p in patterns if p in query_lower)
RECURSIVE CountFound(_, _)
CountFound(patterns, query_lower) ==
    IF patterns = <<>> THEN 0
    ELSE (IF Occurs(patterns[1], query_lower) THEN 1 ELSE 0)
         + CountFound(Tail(patterns), query_lower)

IntentScore(patterns, query_lower) ==
    Min(FULL_SCORE,
        CountFound(patterns.keywords, query_lower) * KEYWORD_SCORE
        + CountFound(patterns.questions, query_lower) * QUESTION_SCORE)

\* "if score > best_score"
Improves_or_equals(score, best_score) == score >= best_score

Improves(score, best_score) == score > best_score

\* the loop over INTENT_PATTERNS.items() from entry i on
RECURSIVE IntentLoop(_, _, _, _)
IntentLoop(query_lower, i, best_intent, best_score) ==
    IF i > Len(INTENT_PATTERNS)
    THEN [intent |-> best_intent, confidence |-> best_score]
    ELSE IF Improves(IntentScore(INTENT_PATTERNS[i], query_lower), best_score)
         THEN IntentLoop(query_lower, i + 1, INTENT_PATTERNS[i].intent,
                         IntentScore(INTENT_PATTERNS[i], query_lower))
         ELSE IntentLoop(query_lower, i + 1, best_intent, best_score)

\* the return statement
AboveFloor(best) ==
    IF best.confidence > CONFIDENCE_FLOOR THEN best
    ELSE [intent |-> NONE, confidence |-> 0]

detect_intent(query) == AboveFloor(IntentLoop(LowerChars(query), 1, NONE, 0))

(***************************************************************************)
(* Intent detection on bounded queries                                     *)
(***************************************************************************)
MaxQueryWords == 3      \* words and phrases a query is made of

QueryWords == {<<"p", "a", "y", "m", "e", "n", "t">>,
               <<"C", "a", "n", "c", "e", "l">>,
               <<"e", "n", "d">>,
               <<"w", "o", "r", "k">>,
               <<"h", "o", "w", " ", "m", "u", "c", "h">>,
               <<"t", "e", "r", "m", "s">>,
               <<"l", "i", "a", "b", "l", "e">>,
               <<"t", "h", "e">>}

IntentQueries ==
    {Join(ws, <<" ">>) :
        ws \in UNION {[1..n -> QueryWords] : n \in 1..MaxQueryWords}}

InitIntent ==
    /\ pc = "idle"
    /\ call = NoCall
    /\ index = {}
    /\ raw_results = <<>>
    /\ results = <<>>
    /\ relevant_chunks = <<>>
    /\ arg_chunks = <<>>
    /\ document \in IntentQueries
    /\ chunker = NoChunker
    /\ contracts = <<>>
    /\ ret = NoRet

DetectIntent ==
    /\ pc = "idle"
    /\ call' = [op |-> "detect_intent"]
    /\ ret' = [status |-> "returned", result |-> detect_intent(document)]
    /\ pc' = "done"
    /\ UNCHANGED <<index, raw_results, results, relevant_chunks, arg_chunks,
                   document, chunker, contracts>>

NextIntent == DetectIntent

SpecIntent == InitIntent /\ [][NextIntent]_vars

\* the patterns of the list found in the lower-cased text, by position
FoundAt(patterns, text) ==
    {k \in 1..Len(patterns) : Occurs(patterns[k], LowerChars(text))}

\* min(1.0, 0.3 x keyword matches + 0.5 x question matches) of entry i
ScoreOf(i, text) ==
    LET raw == 3 * Cardinality(FoundAt(INTENT_PATTERNS[i].keywords, text))
               + 5 * Cardinality(FoundAt(INTENT_PATTERNS[i].questions, text))
    IN  IF raw > 10 THEN 10 ELSE raw

\* the first-declared entry among those with the highest score
Winner(text) ==
    CHOOSE i \in 1..Len(INTENT_PATTERNS) :
        /\ \A j \in 1..Len(INTENT_PATTERNS) : ScoreOf(j, text) <= ScoreOf(i, text)
        /\ \A j \in 1..(i - 1) : ScoreOf(j, text) < ScoreOf(i, text)

IntentDetected == pc = "done" /\ call.op = "detect_intent"

\* C15: detect_intent scores each intent as min(1.0, 0.3 x keyword matches
\* + 0.5 x question-pattern matches) over the lower-cased query and returns
\* the highest-scoring intent if its score is strictly above 0.3, the
\* first-declared one on a tie, and (None, 0.0) when no score exceeds 0.3.
C15_HighestIntentAboveFloor ==
    IntentDetected =>
        IF ScoreOf(Winner(document), document) > 3
        THEN /\ ret.result.intent = INTENT_PATTERNS[Winner(document)].intent
             /\ ret.result.confidence = ScoreOf(Winner(document), document)
        ELSE ret.result = [intent |-> NONE, confidence |-> 0]

\* two intents share the highest score, above the floor, and the
\* first-declared of them was returned
C15_Witness ==
    /\ IntentDetected
    /\ ret.result.intent # NONE
    /\ \E j \in 1..Len(INTENT_PATTERNS) :
          /\ j > Winner(document)
          /\ ScoreOf(j, document) = ScoreOf(Winner(document), document)
    /\ ret.result.intent = INTENT_PATTERNS[Winner(document)].intent

\* a retrieval whose query embedding came back non-empty
QueryEmbedded ==
    /\ pc = "done" /\ call.op = "retrieve"
    /\ ret.embedding.some /\ ret.embedding.v # <<>>

\* C16: the vector handed to the vector store has exactly the canonical
\* dimension: a longer provider vector is truncated to its first components,
\* a shorter one is kept and zero-padded at the end, a warning is recorded
\* for each such normalization, and no exception is raised.  (Stated on the
\* query vector of retrieve_context_enhanced.)
C16_CanonicalDimensionWithWarning ==
    QueryEmbedded =>
        /\ ret.status = "returned"
        /\ call.query_vector.some
        /\ Len(call.query_vector.v) = EMBEDDING_DIM
        /\ \A k \in 1..EMBEDDING_DIM :
              call.query_vector.v[k] =
                  IF k <= Len(ret.embedding.v) THEN ret.embedding.v[k] ELSE 0
        /\ Len(ret.embedding.v) # EMBEDDING_DIM => ret.warnings # <<>>

(***************************************************************************)
(* Result sizes: _enforce_diversity on a ranked list and                   *)
(* retrieve_context_enhanced on an index                                   *)
(***************************************************************************)
InitSize == InitRag \/ InitRank

NextSize == EnforceDiversity \/ RetrieveContextEnhanced

SpecSize == InitSize /\ [][NextSize]_vars

RetrieveReturned == pc = "done" /\ call.op = "retrieve"

\* C17: _enforce_diversity(chunks, max_chunks) never returns more than
\* max_chunks elements, and retrieve_context_enhanced never returns more
\* than top_k chunks, whichever threshold path was taken, with diversity on
\* or off, whether reranking succeeded or raised.
C17_SizesBounded ==
    /\ Diversified => Len(ret.selected) <= call.max_chunks
    /\ RetrieveReturned => Len(relevant_chunks) <= call.top_k

\* two candidates pass the normal threshold, diversity is on, and one chunk
\* is returned for top_k = 1
C17_Witness ==
    /\ RetrieveReturned
    /\ call.enforce_diversity
    /\ call.top_k = 1
    /\ Len(results) = 2
    /\ \A i \in 1..Len(results) : results[i].score >= call.min_score
    /\ Len(relevant_chunks) = 1

(***************************************************************************)
(* Reranking is fail-open                                                  *)
(***************************************************************************)
\* the chunk list handed to _advanced_rerank: Step 5 and Step 6 applied to
\* the boosted results
PreRerank ==
    LET filtered == FilterByScore(results, call.top_k, call.min_score)
    IN  IF call.enforce_diversity /\ filtered # <<>>
        THEN enforce_diversity(filtered, call.top_k) ELSE filtered

\* a chunk dict without the key the reranker writes
WithoutRerankedScore(chunk) ==
    [k \in DOMAIN chunk \ {"reranked_score"} |-> chunk[k]]

RerankFailed ==
    /\ Retrieved
    /\ \E i \in 1..Len(PreRerank) : RerankRaises(PreRerank[i])

\* C18: when _advanced_rerank raises during retrieve_context_enhanced, the
\* call returns the chunks it had before reranking, in the order they had,
\* cut to top_k; none of them is dropped.
C18_RerankFailOpen ==
    RerankFailed =>
        /\ relevant_chunks # <<>>
        /\ Len(relevant_chunks) = Min(Len(PreRerank), call.top_k)
        /\ \A i \in 1..Len(relevant_chunks) :
              WithoutRerankedScore(relevant_chunks[i]) = PreRerank[i]

\* reranking raised on the second of two chunks and both came back in their
\* order
C18_Witness ==
    /\ RerankFailed
    /\ call.op = "retrieve"
    /\ Len(PreRerank) = 2
    /\ ~RerankRaises(PreRerank[1])
    /\ RerankRaises(PreRerank[2])
    /\ Len(relevant_chunks) = 2

(***************************************************************************)
(* OpenRouterClient.chat_completion, one provider POST at a time.          *)
(* call.posts lists the POSTs made so far with the model they named and    *)
(* what the provider answered.                                             *)
(***************************************************************************)
\* the `model` argument: None, or a model other than the primary one
ModelArgs == {NONE, FALLBACK_MODEL}

models_to_try(model) ==
    LET first == IF model = NONE THEN PRIMARY_MODEL ELSE model
    IN  IF first = PRIMARY_MODEL /\ FALLBACK_MODEL # ""
        THEN <<first, FALLBACK_MODEL>> ELSE <<first>>

InitCompletion ==
    /\ pc = "idle"
    /\ call = NoCall
    /\ index = {}
    /\ raw_results = <<>>
    /\ results = <<>>
    /\ relevant_chunks = <<>>
    /\ arg_chunks = <<>>
    /\ document = <<>>
    /\ chunker = NoChunker
    /\ contracts = <<>>
    /\ ret = NoRet

ChatCompletion ==
    /\ pc = "idle"
    /\ \E model \in ModelArgs :
          call' = [op |-> "chat_completion", model |-> model,
                   models_to_try |-> models_to_try(model),
                   m |-> 1, attempt |-> 0, posts |-> <<>>]
    /\ pc' = "posting"
    /\ UNCHANGED <<index, raw_results, results, relevant_chunks, arg_chunks,
                   document, chunker, contracts, ret>>

\* leaving the retry loop of the current model: the next model, or the raise
\* after the last one
NextModel(posts) ==
    IF call.m < Len(call.models_to_try)
    THEN /\ call' = [call EXCEPT !.m = call.m + 1, !.attempt = 0,
                                 !.posts = posts]
         /\ pc' = "posting"
         /\ UNCHANGED ret
    ELSE /\ call' = [call EXCEPT !.posts = posts]
         /\ pc' = "done"
         /\ Returned([raised |-> TRUE, model_used |-> NONE,
                      provider_calls |-> Len(posts)])

NextAttempt_unbounded(posts) ==
    /\ call' = [call EXCEPT !.attempt = 0, !.posts = posts]
    /\ pc' = IF Len(posts) < 6 THEN "posting" ELSE "done"
    /\ IF Len(posts) < 6 THEN UNCHANGED ret
       ELSE Returned([raised |-> TRUE, model_used |-> NONE,
                      provider_calls |-> Len(posts)])

\* the next iteration of `for attempt in range(max_retries)`
NextAttempt(posts) ==
    IF call.attempt + 1 < MAX_RETRIES
    THEN /\ call' = [call EXCEPT !.attempt = call.attempt + 1,
                                 !.posts = posts]
         /\ pc' = "posting"
         /\ UNCHANGED ret
    ELSE NextModel(posts)

\* one POST to /chat/completions and the handling of its outcome
Post ==
    /\ pc = "posting"
    /\ \E outcome \in ProviderOutcomes :
        LET attempt_model == call.models_to_try[call.m]
            posts == Append(call.posts,
                            [model |-> attempt_model, outcome |-> outcome])
        IN  CASE outcome = "ok" ->
                   /\ call' = [call EXCEPT !.posts = posts]
                   /\ pc' = "done"
                   /\ Returned([raised |-> FALSE, model_used |-> attempt_model,
                                provider_calls |-> Len(posts)])
              [] outcome \in {"429", "5xx", "timeout"} -> NextAttempt(posts)
              [] OTHER -> NextModel(posts)
    /\ UNCHANGED <<index, raw_results, results, relevant_chunks, arg_chunks,
                   document, chunker, contracts>>

NextCompletion == ChatCompletion \/ Post

SpecCompletion == InitCompletion /\ [][NextCompletion]_vars

\* the coroutine is resumed after every await: a started call keeps posting
FairCompletion == SpecCompletion /\ WF_vars(Post)

Posting == pc = "posting" /\ call.model = NONE
Completed == pc = "done" /\ call.op = "chat_completion"

PostsOn(model) ==
    {i \in 1..Len(call.posts) : call.posts[i].model = model}

\* the big-step operator used by the generation and verification calls
\* computes what the POST-by-POST loop returns
CompletionAgrees ==
    (Completed /\ call.model = NONE) =>
        ret.result = chat_completion(
            [i \in 1..4 |-> IF i <= Len(call.posts)
                            THEN call.posts[i].outcome ELSE "error"])

DefaultCallSafe ==
    (call.op = "chat_completion" /\ call.model = NONE) =>
        LET posts == call.posts
        IN  /\ Len(posts) <= 4
            /\ pc = "posting" => Len(posts) < 4
            /\ \A i \in 1..Len(posts) :
                  posts[i].model \in {PRIMARY_MODEL, FALLBACK_MODEL}
            /\ posts # <<>> => posts[1].model = PRIMARY_MODEL
            /\ \A i, j \in 1..Len(posts) :
                  (i < j /\ posts[i].model = FALLBACK_MODEL)
                      => posts[j].model = FALLBACK_MODEL
            /\ Cardinality(PostsOn(PRIMARY_MODEL)) <= MAX_RETRIES
            /\ Cardinality(PostsOn(FALLBACK_MODEL)) <= MAX_RETRIES
            /\ (Completed /\ ret.status = "raised") =>
                  /\ \A i \in 1..Len(posts) : posts[i].outcome # "ok"
                  /\ PostsOn(PRIMARY_MODEL) # {}
                  /\ PostsOn(FALLBACK_MODEL) # {}
            /\ (Completed /\ ret.status = "returned") =>
                  /\ posts # <<>>
                  /\ posts[Len(posts)].outcome = "ok"
                  /\ ret.result.model_used = posts[Len(posts)].model
                  /\ \A i \in 1..(Len(posts) - 1) : posts[i].outcome # "ok"

\* C19: chat_completion called without an explicit model posts to the
\* primary model first, at most max_retries = 2 times, then to the fallback
\* model, at most 2 times; it raises only when no POST on either model
\* succeeded; it ends after at most 4 POSTs; on success model_used is the
\* model of the POST that succeeded.
C19_PrimaryThenFallback ==
    []DefaultCallSafe /\ (Posting ~> Completed)

\* the primary model failed twice and the fallback answered on its second
\* POST
C19_Witness ==
    /\ Completed
    /\ call.model = NONE
    /\ Len(call.posts) = 4
    /\ ret.status = "returned"
    /\ ret.result.model_used = FALLBACK_MODEL

(***************************************************************************)
(* Contracts: app/db/crud/contract.py on the contracts table.  A row's id  *)
(* is its position in the table; datetime.utcnow() is the token NOW.       *)
(***************************************************************************)
DRAFT == "draft"
PENDING_REVIEW == "pending_review"
APPROVED == "approved"
REJECTED == "rejected"
EXECUTED == "executed"
ARCHIVED == "archived"

ContractStatus == {DRAFT, PENDING_REVIEW, APPROVED, REJECTED, EXECUTED, ARCHIVED}

NOW == "utcnow"

MaxContracts == 2       \* rows the table may hold

ContractIds == 1..MaxContracts    \* ids a caller may pass; some match no row
Titles == {"NDA", "MSA"}
UserIds == {"u1"}
ReviewerIds == {"r1", "r2"}
ReviewNotes == {NONE, "fine"}
RejectionReasons == {"too vague"}

\* Contract(...): the column defaults of the model for what is not passed
Contract(title, created_by, status, version, parent_contract_id) ==
    [title |-> title, status |-> status, version |-> version,
     parent_contract_id |-> parent_contract_id, is_latest_version |-> TRUE,
     created_by |-> created_by, reviewed_by |-> NONE, approved_by |-> NONE,
     review_notes |-> NONE, rejection_reason |-> NONE,
     submitted_at |-> NONE, reviewed_at |-> NONE, executed_at |-> NONE]

\* the None of an Optional[Contract]
NoContract == [status |-> NONE]

\* get_contract: the row, or None
get_contract(db, contract_id) ==
    IF contract_id \in 1..Len(db) THEN db[contract_id] ELSE NoContract

InitContract ==
    /\ pc = "idle"
    /\ call = NoCall
    /\ index = {}
    /\ raw_results = <<>>
    /\ results = <<>>
    /\ relevant_chunks = <<>>
    /\ arg_chunks = <<>>
    /\ document = <<>>
    /\ chunker = NoChunker
    /\ contracts = <<>>
    /\ ret = NoRet

\* what a contract operation leaves alone
ContractFrame ==
    UNCHANGED <<pc, index, raw_results, results, relevant_chunks, arg_chunks,
                document, chunker>>

Answer(value) == ret' = [status |-> "returned", error |-> NONE, value |-> value]

Raise(error) == ret' = [status |-> "raised", error |-> error, value |-> NONE]

CreateContract ==
    /\ Len(contracts) < MaxContracts
    /\ \E title \in Titles, user_id \in UserIds :
        /\ call' = [op |-> "create_contract", contract_id |-> Len(contracts) + 1]
        /\ contracts' = Append(contracts, Contract(title, user_id, DRAFT, 1, NONE))
        /\ Answer(Len(contracts) + 1)
    /\ ContractFrame

UpdateContract ==
    /\ \E contract_id \in ContractIds, title \in Titles :
        LET db_contract == get_contract(contracts, contract_id)
        IN  /\ call' = [op |-> "update_contract", contract_id |-> contract_id]
            /\ IF db_contract = NoContract
               THEN Answer(NONE) /\ UNCHANGED contracts
               ELSE IF db_contract.status # DRAFT
               THEN Raise("BadRequestException") /\ UNCHANGED contracts
               ELSE /\ contracts' = [contracts EXCEPT ![contract_id].title = title]
                    /\ Answer(contract_id)
    /\ ContractFrame

\* original.metadata is the declarative MetaData of the mapped class unless
\* the instance was given a `metadata` attribute in this session; MetaData
\* has no copy(), and the AttributeError leaves nothing committed
NewVersion(ids, capacity) ==
    /\ \E contract_id \in ids, user_id \in UserIds,
          metadata_is_dict \in BOOLEAN :
        LET original == get_contract(contracts, contract_id)
        IN  /\ call' = [op |-> "create_new_version", contract_id |-> contract_id]
            /\ IF original = NoContract
               THEN Raise("NotFoundException") /\ UNCHANGED contracts
               ELSE IF ~metadata_is_dict
               THEN Raise("AttributeError") /\ UNCHANGED contracts
               ELSE /\ Len(contracts) < capacity
                    /\ contracts' =
                         Append([contracts EXCEPT
                                    ![contract_id].is_latest_version = FALSE],
                                Contract(original.title, user_id, DRAFT,
                                         original.version + 1, contract_id))
                    /\ Answer(Len(contracts) + 1)
    /\ ContractFrame

CreateNewVersion == NewVersion(ContractIds, MaxContracts)

SubmitForReview ==
    /\ \E contract_id \in ContractIds :
        LET db_contract == get_contract(contracts, contract_id)
        IN  /\ call' = [op |-> "submit_for_review", contract_id |-> contract_id]
            /\ IF db_contract = NoContract
               THEN Answer(NONE) /\ UNCHANGED contracts
               ELSE IF db_contract.status # DRAFT
               THEN Raise("BadRequestException") /\ UNCHANGED contracts
               ELSE /\ contracts' = [contracts EXCEPT
                                        ![contract_id].status = PENDING_REVIEW,
                                        ![contract_id].submitted_at = NOW]
                    /\ Answer(contract_id)
    /\ ContractFrame

ApproveContract_unguarded ==
    /\ \E contract_id \in ContractIds, reviewer_id \in ReviewerIds,
          notes \in ReviewNotes :
        LET db_contract == get_contract(contracts, contract_id)
        IN  /\ call' = [op |-> "approve_contract", contract_id |-> contract_id]
            /\ IF db_contract = NoContract
               THEN Answer(NONE) /\ UNCHANGED contracts
               ELSE /\ contracts' = [contracts EXCEPT
                                        ![contract_id].status = APPROVED,
                                        ![contract_id].reviewed_by = reviewer_id,
                                        ![contract_id].approved_by = reviewer_id,
                                        ![contract_id].reviewed_at = NOW,
                                        ![contract_id].review_notes = notes]
                    /\ Answer(contract_id)
    /\ ContractFrame

ApproveContract ==
    /\ \E contract_id \in ContractIds, reviewer_id \in ReviewerIds,
          notes \in ReviewNotes :
        LET db_contract == get_contract(contracts, contract_id)
        IN  /\ call' = [op |-> "approve_contract", contract_id |-> contract_id]
            /\ IF db_contract = NoContract
               THEN Answer(NONE) /\ UNCHANGED contracts
               ELSE IF db_contract.status # PENDING_REVIEW
               THEN Raise("BadRequestException") /\ UNCHANGED contracts
               ELSE /\ contracts' = [contracts EXCEPT
                                        ![contract_id].status = APPROVED,
                                        ![contract_id].reviewed_by = reviewer_id,
                                        ![contract_id].approved_by = reviewer_id,
                                        ![contract_id].reviewed_at = NOW,
                                        ![contract_id].review_notes = notes]
                    /\ Answer(contract_id)
    /\ ContractFrame

RejectContract ==
    /\ \E contract_id \in ContractIds, reviewer_id \in ReviewerIds,
          reason \in RejectionReasons :
        LET db_contract == get_contract(contracts, contract_id)
        IN  /\ call' = [op |-> "reject_contract", contract_id |-> contract_id]
            /\ IF db_contract = NoContract
               THEN Answer(NONE) /\ UNCHANGED contracts
               ELSE IF db_contract.status # PENDING_REVIEW
               THEN Raise("BadRequestException") /\ UNCHANGED contracts
               ELSE /\ contracts' = [contracts EXCEPT
                                        ![contract_id].status = REJECTED,
                                        ![contract_id].reviewed_by = reviewer_id,
                                        ![contract_id].reviewed_at = NOW,
                                        ![contract_id].rejection_reason = reason]
                    /\ Answer(contract_id)
    /\ ContractFrame

ExecuteContract ==
    /\ \E contract_id \in ContractIds :
        LET db_contract == get_contract(contracts, contract_id)
        IN  /\ call' = [op |-> "execute_contract", contract_id |-> contract_id]
            /\ IF db_contract = NoContract
               THEN Answer(NONE) /\ UNCHANGED contracts
               ELSE IF db_contract.status # APPROVED
               THEN Raise("BadRequestException") /\ UNCHANGED contracts
               ELSE /\ contracts' = [contracts EXCEPT
                                        ![contract_id].status = EXECUTED,
                                        ![contract_id].executed_at = NOW]
                    /\ Answer(contract_id)
    /\ ContractFrame

ArchiveContract ==
    /\ \E contract_id \in ContractIds :
        LET db_contract == get_contract(contracts, contract_id)
        IN  /\ call' = [op |-> "archive_contract", contract_id |-> contract_id]
            /\ IF db_contract = NoContract
               THEN Answer(FALSE) /\ UNCHANGED contracts
               ELSE /\ contracts' = [contracts EXCEPT
                                        ![contract_id].status = ARCHIVED]
                    /\ Answer(TRUE)
    /\ ContractFrame

NextContract ==
    \/ CreateContract
    \/ UpdateContract
    \/ CreateNewVersion
    \/ SubmitForReview
    \/ ApproveContract
    \/ RejectContract
    \/ ExecuteContract
    \/ ArchiveContract

SpecContract == InitContract /\ [][NextContract]_vars

\* the status each guarded operation requires
RequiredStatus ==
    [submit_for_review |-> DRAFT, approve_contract |-> PENDING_REVIEW,
     reject_contract |-> PENDING_REVIEW, execute_contract |-> APPROVED]

\* the status each operation writes
WrittenStatus ==
    [submit_for_review |-> PENDING_REVIEW, approve_contract |-> APPROVED,
     reject_contract |-> REJECTED, execute_contract |-> EXECUTED,
     archive_contract |-> ARCHIVED]

\* the step changes the status of row id only along an arrow of the workflow
AlongWorkflow(id) ==
    contracts'[id].status # contracts[id].status =>
        /\ call'.contract_id = id
        /\ call'.op \in DOMAIN WrittenStatus
        /\ contracts'[id].status = WrittenStatus[call'.op]
        /\ call'.op \in DOMAIN RequiredStatus
              => contracts[id].status = RequiredStatus[call'.op]

\* a guarded operation applied to row id in another status is refused
RefusedElsewhere(id) ==
    (/\ call'.op \in DOMAIN RequiredStatus
     /\ call'.contract_id = id
     /\ contracts[id].status # RequiredStatus[call'.op]) =>
        /\ ret'.status = "raised"
        /\ ret'.error = "BadRequestException"
        /\ contracts'[id] = contracts[id]

\* C20: in every sequence of contract operations a contract's status changes
\* only DRAFT -> PENDING_REVIEW by submit, PENDING_REVIEW -> APPROVED by
\* approve, PENDING_REVIEW -> REJECTED by reject, APPROVED -> EXECUTED by
\* execute, and from any status to ARCHIVED by archive; submit, approve,
\* reject or execute on a contract in another status raises the bad-request
\* error and leaves the row, its status and review fields included, as it
\* was.
C20_StatusWorkflow ==
    [][\A id \in 1..Len(contracts) : AlongWorkflow(id) /\ RefusedElsewhere(id)]_vars

\* an approval was refused on an executed contract, which keeps the reviewer
\* of its approval
C20_Witness ==
    /\ call.op = "approve_contract"
    /\ ret.status = "raised"
    /\ call.contract_id \in 1..Len(contracts)
    /\ contracts[call.contract_id].status = EXECUTED
    /\ contracts[call.contract_id].approved_by \in ReviewerIds

(***************************************************************************)
(* Chunk sizes                                                             *)
(***************************************************************************)
DocumentChunked == pc = "done" /\ call.op = "chunk_document"

\* the overlap seed and the separator that joins it to the next piece
SizeSlack(cfg) == cfg.overlap + 2

\* C21: every chunk returned by chunk_document other than the first and the
\* last is at most chunk_size characters long, plus the overlap seed and its
\* separator, also when a paragraph holds one sentence longer than
\* chunk_size.
C21_InnerChunksBounded ==
    DocumentChunked =>
        \A k \in 2..(Len(ret.result) - 1) :
            Len(ret.result[k].text) <= chunker.chunk_size + SizeSlack(chunker)

(***************************************************************************)
(* EmbeddingService.embed_chunks on bounded chunk lists                    *)
(***************************************************************************)
EmbedChunks ==
    /\ pc = "idle"
    /\ \E answers \in EmbedAnswers(Len(arg_chunks)) :
        /\ call' = [op |-> "embed_chunks", texts |-> arg_chunks,
                    answers |-> answers]
        /\ ret' = [status |-> "returned",
                   result |-> embed_chunks(
                                 [i \in 1..Len(arg_chunks) |-> [text |-> arg_chunks[i]]],
                                 [i \in 1..Len(arg_chunks) |-> PositionVector(i)],
                                 answers)]
    /\ pc' = "done"
    /\ UNCHANGED <<index, raw_results, results, relevant_chunks, arg_chunks,
                   document, chunker, contracts>>

NextEnrich == EmbedChunks

SpecEnrich == InitEmbed /\ [][NextEnrich]_vars

ChunksEmbedded == pc = "done" /\ call.op = "embed_chunks"

\* C22: embed_chunks returns one enriched chunk per input chunk, also when
\* some chunk text is empty or blank; the embedding attached to chunk i is
\* the vector computed from chunk i's own text, or None; it is never the
\* vector of another chunk.
C22_EmbeddingOfOwnChunk ==
    ChunksEmbedded =>
        /\ Len(ret.result) = Len(call.texts)
        /\ \A i \in 1..Len(ret.result) :
              /\ ret.result[i].text = call.texts[i]
              /\ \/ ret.result[i].embedding = NoVector
                 \/ ret.result[i].embedding = Vec(PositionVector(i))

(***************************************************************************)
(* Order of the returned chunks                                            *)
(***************************************************************************)
AllReranked(chunks) ==
    \A i \in 1..Len(chunks) : "reranked_score" \in DOMAIN chunks[i]

\* C23: for every non-empty candidate list, chunks without a section title
\* included, the reranking step leaves every chunk with a reranked_score
\* and orders the chunks by non-increasing reranked_score, keeping the
\* chunks it was given; so retrieve_context_enhanced returns its chunks in
\* non-increasing order of their combined score.
C23_OrderedByRerankedScore ==
    (Retrieved /\ PreRerank # <<>>) =>
        /\ AllReranked(relevant_chunks)
        /\ \A i, j \in 1..Len(relevant_chunks) :
              i < j => relevant_chunks[i].reranked_score
                          >= relevant_chunks[j].reranked_score
        /\ Len(relevant_chunks) = Min(Len(PreRerank), call.top_k)
        /\ \A i \in 1..Len(relevant_chunks) :
              \E k \in 1..Len(PreRerank) :
                  WithoutRerankedScore(relevant_chunks[i]) = PreRerank[k]

(***************************************************************************)
(* delete_file_from_pinecone after index_file_to_pinecone                  *)
(***************************************************************************)
DELETE_RANGE == 1       \* stands for the 1000 of range(1000)

\* pinecone_client.delete_vectors answers False when the index call fails
delete_file_from_pinecone(vectors, upload_id, pinecone_ok) ==
    IF pinecone_ok
    THEN [success |-> TRUE,
          index |-> {v \in vectors :
                        v.id \notin {VectorId(upload_id, i) :
                                        i \in 0..(DELETE_RANGE - 1)}}]
    ELSE [success |-> FALSE, index |-> vectors]

DeleteFileFromPinecone ==
    /\ pc = "done"
    /\ call.op = "index_file_to_pinecone"
    /\ \E pinecone_ok \in BOOLEAN :
        /\ call' = [op |-> "delete_file_from_pinecone",
                    upload_id |-> call.upload.id]
        /\ index' = delete_file_from_pinecone(index, call.upload.id,
                                              pinecone_ok).index
        /\ ret' = [status |-> "returned",
                   result |-> delete_file_from_pinecone(index, call.upload.id,
                                                        pinecone_ok).success]
    /\ pc' = "deleted"
    /\ UNCHANGED <<raw_results, results, relevant_chunks, arg_chunks, document,
                   chunker, contracts>>

NextDelete == IndexFileToPinecone \/ DeleteFileFromPinecone

SpecDelete == InitIndex /\ [][NextDelete]_vars

\* C24: after index_file_to_pinecone has indexed an upload of n chunks and
\* delete_file_from_pinecone(upload_id) has returned True, the vector store
\* holds no vector with id '<upload_id>_chunk_<i>' for any i in 0..n-1.
C24_DeleteRemovesAllVectors ==
    (pc = "deleted" /\ ret.result = TRUE) =>
        \A i \in 0..(Len(arg_chunks) - 1) :
            \A v \in index : v.id # VectorId(call.upload_id, i)

(***************************************************************************)
(* _verify_answer: the answer it delivers                                  *)
(***************************************************************************)
Verified == pc = "done" /\ call.op = "verify"

\* C25: for every verifier outcome (provider error, non-JSON text, malformed
\* JSON, a JSON object without revised_answer, or one whose revised_answer is
\* null or empty), _verify_answer returns a non-empty answer string that is
\* the unmodified draft or the non-empty revised answer of the verifier.
C25_AnswerAlwaysDelivered ==
    Verified =>
        /\ ret.result.answer # NONE
        /\ ret.result.answer # ""
        /\ \/ ret.result.answer = call.draft_answer
           \/ ret.result.answer = REVISED_ANSWER

(***************************************************************************)
(* _enforce_diversity on the chunks of one file                            *)
(***************************************************************************)
\* C26: when every candidate chunk has the same file id,
\* _enforce_diversity(chunks, max_chunks) returns the first
\* min(len(chunks), max_chunks) chunks.
C26_SingleFileUncapped ==
    (Diversified /\ \A i, j \in 1..Len(arg_chunks) :
                        arg_chunks[i].file_id = arg_chunks[j].file_id) =>
        ret.selected = Take(arg_chunks, Min(Len(arg_chunks), call.max_chunks))

(***************************************************************************)
(* retrieve_context_enhanced: the file scope of the returned chunks        *)
(***************************************************************************)
\* C27: whenever retrieve_context_enhanced is called with a non-empty
\* file_ids list, every chunk it returns has a file_id that is a member of
\* file_ids, for every state of the vector store.
C27_FileScopeRespected ==
    (Retrieved /\ call.file_ids # <<>>) =>
        \A i \in 1..Len(relevant_chunks) :
            relevant_chunks[i].file_id \in Range(call.file_ids)

(***************************************************************************)
(* generate_grounded_answer: the sources next to the citation numbers      *)
(***************************************************************************)
\* the contexts of three chunks: the shortest in which two chunks of one
\* section can stand around a chunk of another
InitCite == InitRank /\ Len(arg_chunks) = 3

NextCite == GenerateGroundedAnswer

SpecCite == InitCite /\ [][NextCite]_vars

Generated == pc = "done" /\ call.op = "generate" /\ ret.result.confidence # "error"

\* the position in context_chunks of the chunk rendered as [Source k]
LabelledIdx(chunks, k) ==
    LET parts == build_enhanced_context(chunks).context_parts
        p == CHOOSE j \in 1..Len(parts) :
                 parts[j].kind = "chunk" /\ parts[j].source_num = k
    IN  parts[p].chunk_idx

\* C28: for every chunk list passed to generate_grounded_answer and every k,
\* the k-th entry of the returned sources describes the chunk (same file_id,
\* page and chunk_index) that build_enhanced_context labelled [Source k].
C28_SourcesFollowCitations ==
    Generated =>
        \A k \in 1..Len(ret.result.sources) :
            SourceKey(ret.result.sources[k])
                = SourceKey(arg_chunks[LabelledIdx(arg_chunks, k)])

(***************************************************************************)
(* _advanced_rerank raising part-way: what it leaves in the chunks         *)
(***************************************************************************)
NoneReranked(chunks) ==
    \A i \in 1..Len(chunks) : "reranked_score" \notin DOMAIN chunks[i]

\* C29: if _advanced_rerank raises part-way through, no chunk in the list
\* returned by retrieve_context_enhanced carries a reranked_score; in every
\* returned list either all chunks have a reranked_score or none has.
C29_RerankAllOrNone ==
    Retrieved =>
        /\ RerankFailed => NoneReranked(relevant_chunks)
        /\ AllReranked(relevant_chunks) \/ NoneReranked(relevant_chunks)

(***************************************************************************)
(* create_new_version on the members of one lineage                        *)
(***************************************************************************)
MaxLineage == 3         \* contracts of the lineage: the original and two versions

\* the table holds one original contract, in any status of its workflow
InitVersion ==
    /\ pc = "idle"
    /\ call = NoCall
    /\ index = {}
    /\ raw_results = <<>>
    /\ results = <<>>
    /\ relevant_chunks = <<>>
    /\ arg_chunks = <<>>
    /\ document = <<>>
    /\ chunker = NoChunker
    /\ contracts \in {<<Contract(title, user_id, status, 1, NONE)>> :
                         title \in Titles, user_id \in UserIds,
                         status \in ContractStatus}
    /\ ret = NoRet

CreateNewVersionInLineage == NewVersion(1..MaxLineage, MaxLineage)

NextVersion == CreateNewVersionInLineage

SpecVersion == InitVersion /\ [][NextVersion]_vars

LatestOf(db) == {id \in 1..Len(db) : db[id].is_latest_version}

\* C30: after any sequence of create_new_version calls on the contracts of
\* one lineage, on any member, exactly one contract of the lineage has
\* is_latest_version = true, no two contracts of the lineage share a version
\* number, and each new version is in status DRAFT with version = parent
\* version + 1.
C30_LineageWellFormed ==
    /\ Cardinality(LatestOf(contracts)) = 1
    /\ \A i, j \in 1..Len(contracts) :
          i # j => contracts[i].version # contracts[j].version
    /\ \A id \in 2..Len(contracts) :
          /\ contracts[id].status = DRAFT
          /\ contracts[id].version
                = contracts[contracts[id].parent_contract_id].version + 1

====
